---------------------------- MODULE Spec2Model ----------------------------
(***************************************************************************)
(* A model of the giantt core (src/docs/port_reference/giantt_core.py):    *)
(* GianttGraph with its topological sort and cycle report, GianttDoctor    *)
(* with its checks and fixes, and LogCollection with its sorted insert.    *)
(*                                                                         *)
(* The specifications share the variables; each drives one component       *)
(* and leaves the others as constructed:                                   *)
(*   SortSpec   - add_item, topological_sort, rebuilding in another order  *)
(*   DoctorSpec - add_item, quick_check, full_diagnosis, fix_issues        *)
(*   LogSpec    - add_entry, add_entries (InsertSpec: add_entry alone)     *)
(*   QuerySpec  - add_entry, add_entries, get_by_date_range                *)
(*   EntrySpec  - LogEntry create, add_tag, remove_tag, save and load      *)
(*   CodecSpec  - GianttItem to_string and from_string                     *)
(*   FindSpec   - find_by_substring                                        *)
(*   GraphSpec  - the commands on the graph files                          *)
(*   DurationSpec - Duration parse and addition                            *)
(*   TerminationSpec - the steps of one topological_sort call              *)
(*   CopySpec   - graph.copy() and operations on the graph and its copy    *)
(***************************************************************************)
EXTENDS Integers, Sequences, FiniteSets, TLC

VARIABLES
    order,          \* GianttGraph.items: the dict's keys in insertion order
    relations,      \* GianttGraph.items[id].relations: a dict, as the
                    \* sequence of its <<key, list of ids>> pairs in dict order
    outcome,        \* what the last topological_sort() call ended with
    firstOutcome,   \* history: its outcome on the graph before rebuilding
    issues,         \* GianttDoctor.issues
    fixed_issues,   \* GianttDoctor.fixed_issues
    diagnosed,      \* history: the graph as the last check saw it, which
                    \* check it was, whether fix_issues ran since, and
                    \* how many fix_issues calls there were in all
    attempted,      \* history: issues_to_fix of the last fix_issues call
    returned,       \* history: the list the last doctor call returned
    entries,        \* LogCollection.entries
    serial,         \* history: number of LogEntry objects created so far
    other,          \* history: the entries the last add_entries call was given
    original,       \* a GianttItem as constructed
    formatted,      \* original.to_string()
    parsed,         \* GianttItem.from_string(formatted): an item or an
                    \* exception
    reformatted,    \* parsed.to_string()
    titles,         \* GianttGraph.items[id].title
    args,           \* history: the arguments of the last graph operation
    result,         \* history: what the last graph operation returned or
                    \* raised
    occlude,        \* GianttGraph.items[id].occlude
    include_file,   \* the lines of the items file
    occlude_file,   \* the lines of the occluded items file
    temp_include,   \* the lines of the items file's .temp file
    temp_occlude,   \* the lines of the occluded items file's .temp file
    save_items,     \* save_graph_files: its local sorted_items
    pc,             \* where the running command is in save_graph_files
    atStart,        \* history: the graph and the files when the last graph
                    \* operation started
    log_entry,      \* a LogEntry object
    copy_order,     \* the items of graph.copy(): keys in insertion order
    copy_relations, \* the relations dicts of the items of graph.copy()
    copy_ops,       \* operations applied since the copy was taken
    shared,         \* the <<id, key>> whose list object is one and the same
                    \* in the graph and in its copy
    lastOp          \* history: the operation that produced this state

vars == <<order, relations, outcome, firstOutcome, issues, fixed_issues,
          diagnosed, attempted, returned, entries, serial, other,
          original, formatted, parsed, reformatted,
          titles, args, result, occlude, include_file, occlude_file,
          temp_include, temp_occlude, save_items, pc, atStart,
          log_entry, copy_order, copy_relations, shared, copy_ops, lastOp>>

graphVars  == <<order, relations>>
sortVars   == <<outcome, firstOutcome>>
doctorVars == <<issues, fixed_issues, diagnosed, attempted, returned>>
logVars    == <<entries, serial, other>>
codecVars  == <<original, formatted, parsed, reformatted>>
graphOpVars == <<titles, args, result>>
fileVars   == <<include_file, occlude_file>>
saveVars   == <<temp_include, temp_occlude, save_items, pc>>
cliVars    == <<occlude, fileVars, saveVars, atStart>>
entryVars  == <<log_entry>>
copyVars   == <<copy_order, copy_relations, shared, copy_ops>>

---------------------------------------------------------------------------
(* Bounds *)

\* Item ids, ascending in Python's str order (the sort key's tie-breaker).
\* "requires_c" is an id whose text contains a relation name.
IdSeq == <<"a", "b", "requires_c">>
Ids == {IdSeq[i] : i \in 1..Len(IdSeq)}

\* Total number of relation entries a graph is built with in SortSpec.
MaxRelEntries == 3

---------------------------------------------------------------------------
(* Sequence helpers *)

Range(s) == {s[i] : i \in 1..Len(s)}

Contains(s, x) == \E i \in 1..Len(s) : s[i] = x

\* list.index(x): the first position of x
IndexOf(s, x) == CHOOSE i \in 1..Len(s) : s[i] = x /\ \A j \in 1..(i-1) : s[j] # x

Reverse(s) == [i \in 1..Len(s) |-> s[Len(s) + 1 - i]]

\* every enumeration of the finite set S without repetition
Perms(S) ==
    {p \in [1..Cardinality(S) -> S] : \A i, j \in 1..Cardinality(S) : p[i] = p[j] => i = j}

SeqsUpTo(S, n) == UNION {[1..k -> S] : k \in 0..n}

IdRank(id) == CHOOSE i \in 1..Len(IdSeq) : IdSeq[i] = id

---------------------------------------------------------------------------
(* GianttGraph *)

\* RelationType._member_names_, in declaration order
RelationType == <<"REQUIRES", "ANYOF", "SUPERCHARGES", "INDICATES",
                  "TOGETHER", "CONFLICTS", "BLOCKS", "SUFFICIENT">>

\* keys a relations dict can hold: the member names, and the "ANY" that
\* _check_chains reads and _fix_incomplete_chain writes
RelKeys == Range(RelationType) \cup {"ANY"}

ItemIds(o) == Range(o)

\* A dict is the sequence of its <<key, value>> pairs in insertion order.
\* key in d
DictHas(d, key) == \E i \in 1..Len(d) : d[i][1] = key

\* d[key]
DictAt(d, key) == d[CHOOSE i \in 1..Len(d) : d[i][1] = key][2]

\* d.get(key, default)
DictGet(d, key, default) == IF DictHas(d, key) THEN DictAt(d, key) ELSE default

\* d[key] = value: an existing key keeps its place, a new one goes last
DictSet(d, key, value) ==
    IF DictHas(d, key)
    THEN [i \in 1..Len(d) |-> IF d[i][1] = key THEN <<key, value>> ELSE d[i]]
    ELSE Append(d, <<key, value>>)

\* del d[key]
DictDel(d, key) == SelectSeq(d, LAMBDA pair : pair[1] # key)

\* a graph without items, and an item's relations = {}
NoItems == [id \in {} |-> <<>>]
NoRelations == <<>>

\* item.relations.get(key, [])
RelGet(rel, id, key) == DictGet(rel[id], key, <<>>)

\* number of relation entries stored in the graph (what the bounds count)
RelEntries(rel) ==
    LET RECURSIVE Sum(_)
        Sum(ps) == IF ps = {} THEN 0
                   ELSE LET p == CHOOSE q \in ps : TRUE
                        IN Len(rel[p[1]][p[2]][2]) + Sum(ps \ {p})
    IN Sum({p \in (DOMAIN rel) \X (1..Cardinality(RelKeys)) : p[2] <= Len(rel[p[1]])})

\* add_item: self.items[item.id] = item (an existing key keeps its place)
add_item_order(o, id) == IF Contains(o, id) THEN o ELSE Append(o, id)

add_item_relations(rel, id, itemRel) ==
    [i \in (DOMAIN rel) \cup {id} |-> IF i = id THEN itemRel ELSE rel[i]]


---------------------------------------------------------------------------
(* _safe_topological_sort *)

\* adj_list: REQUIRES targets that are keys of the graph, as a set
adj_list(o, rel) ==
    [id \in ItemIds(o) |-> Range(RelGet(rel, id, "REQUIRES")) \cap ItemIds(o)]

\* The order in which each adj_list[node] set is iterated.  Python fixes no
\* iteration order for a set of str: any enumeration, the same one each
\* time the unchanged set is iterated.
IterOrders(adj) ==
    LET RECURSIVE Build(_)
        Build(ids) ==
            IF ids = {} THEN {NoItems}
            ELSE LET id == CHOOSE i \in ids : TRUE
                 IN {f @@ (id :> p) : f \in Build(ids \ {id}), p \in Perms(adj[id])}
    IN Build(DOMAIN adj)

\* in_degree[n]: how many nodes list n in their adjacency set
in_degree_of_own_edges(adj) ==
    [n \in DOMAIN adj |-> Cardinality(adj[n])]

in_degree(adj) ==
    [n \in DOMAIN adj |-> Cardinality({m \in DOMAIN adj : n \in adj[m]})]

\* for neighbor in adj_list[node]: decrement, enqueue on reaching zero
RECURSIVE kahn_neighbors(_, _, _)
kahn_neighbors(nbrs, deg, queue) ==
    IF nbrs = <<>> THEN [in_degree |-> deg, queue |-> queue]
    ELSE LET n == Head(nbrs)
             d == [deg EXCEPT ![n] = @ - 1]
         IN kahn_neighbors(Tail(nbrs), d, IF d[n] = 0 THEN Append(queue, n) ELSE queue)

\* while queue: node = queue.pop(0); sorted_items.append(node); ...
RECURSIVE kahn_loop(_, _, _, _)
kahn_loop(queue, deg, sorted_items, iter) ==
    IF queue = <<>> THEN sorted_items
    ELSE LET node == Head(queue)
             r == kahn_neighbors(iter[node], deg, Tail(queue))
         IN kahn_loop(r.queue, r.in_degree, Append(sorted_items, node), iter)

\* dfs(current) of find_cycle; <<>> stands for None.  A call that returns
\* None leaves the stack as it found it.
RECURSIVE dfs(_, _, _, _)
RECURSIVE dfs_neighbors(_, _, _, _)
dfs(current, stack, visited, iter) ==
    IF Contains(stack, current)
    THEN SubSeq(stack, IndexOf(stack, current), Len(stack))
    ELSE IF current \in visited THEN <<>>
    ELSE dfs_neighbors(iter[current], Append(stack, current), visited, iter)

dfs_neighbors(nbrs, stack, visited, iter) ==
    IF nbrs = <<>> THEN <<>>
    ELSE LET cycle == dfs(Head(nbrs), stack, visited, iter)
         IN IF cycle # <<>> THEN cycle
            ELSE dfs_neighbors(Tail(nbrs), stack, visited, iter)

find_cycle_not_closed(start_node, visited, iter) ==
    dfs(start_node, <<>>, visited, iter)

\* find_cycle, started from start_node = next(iter(unvisited))
find_cycle(start_node, visited, iter) ==
    LET cycle == dfs(start_node, <<>>, visited, iter)
    IN IF cycle # <<>> THEN Append(cycle, cycle[1]) ELSE <<>>

safe_topological_sort_without_length_check(o, rel) ==
    LET adj == adj_list(o, rel)
        deg == in_degree(adj)
        queue == SelectSeq(o, LAMBDA n : deg[n] = 0)
    IN {[kind |-> "ok", ids |-> Reverse(kahn_loop(queue, deg, <<>>, iter))] :
           iter \in IterOrders(adj)}

\* The outcomes of _safe_topological_sort: a list of ids (kind "ok") or
\* CycleDetectedException(cycle_items) (kind "cycle"), over every set
\* iteration order and every choice of next(iter(unvisited)).
safe_topological_sort(o, rel) ==
    LET adj == adj_list(o, rel)
        deg == in_degree(adj)
        queue == SelectSeq(o, LAMBDA n : deg[n] = 0)
        Run(iter) ==
            LET sorted_items == kahn_loop(queue, deg, <<>>, iter)
                visited == Range(sorted_items)
            IN IF Len(sorted_items) # Len(o)
               THEN {[kind |-> "cycle", ids |-> find_cycle(s, visited, iter)] :
                        s \in ItemIds(o) \ visited}
               ELSE {[kind |-> "ok", ids |-> Reverse(sorted_items)]}
    IN UNION {Run(iter) : iter \in IterOrders(adj)}

---------------------------------------------------------------------------
(* topological_sort *)

get_dependency_depth_flat(id, o, rel) == 0

RECURSIVE get_dependency_depth_counting_absent(_, _, _)
get_dependency_depth_counting_absent(id, o, rel) ==
    IF ~DictHas(rel[id], "REQUIRES") THEN 0
    ELSE LET deps == DictAt(rel[id], "REQUIRES")
             RECURSIVE MaxDepth(_, _)
             MaxDepth(i, max_depth) ==
                 IF i > Len(deps) THEN max_depth
                 ELSE LET d == IF deps[i] \in ItemIds(o)
                               THEN get_dependency_depth_counting_absent(deps[i], o, rel) + 1
                               ELSE 1
                      IN MaxDepth(i + 1, IF d > max_depth THEN d ELSE max_depth)
         IN MaxDepth(1, 0)

\* _get_dependency_depth: unmemoized recursion over the REQUIRES lists
RECURSIVE get_dependency_depth(_, _, _)
get_dependency_depth(id, o, rel) ==
    IF ~DictHas(rel[id], "REQUIRES") THEN 0
    ELSE LET deps == DictAt(rel[id], "REQUIRES")
             RECURSIVE MaxDepth(_, _)
             MaxDepth(i, max_depth) ==
                 IF i > Len(deps) THEN max_depth
                 ELSE IF deps[i] \in ItemIds(o)
                 THEN LET d == get_dependency_depth(deps[i], o, rel) + 1
                      IN MaxDepth(i + 1, IF d > max_depth THEN d ELSE max_depth)
                 ELSE MaxDepth(i + 1, max_depth)
         IN MaxDepth(1, 0)

\* get_item_sort_key(x) <= get_item_sort_key(y): tuples (depth, id)
sort_key_leq(x, y, o, rel) ==
    LET dx == get_dependency_depth(x, o, rel)
        dy == get_dependency_depth(y, o, rel)
    IN dx < dy \/ (dx = dy /\ IdRank(x) <= IdRank(y))

\* sorted(sorted_items, key=get_item_sort_key): a stable sort
sorted_by_key(s, o, rel) ==
    LET RECURSIVE Ins(_, _)
        \* x goes after every element whose key is <= its own
        Ins(acc, x) ==
            IF acc = <<>> THEN <<x>>
            ELSE IF sort_key_leq(Head(acc), x, o, rel)
            THEN <<Head(acc)>> \o Ins(Tail(acc), x)
            ELSE <<x>> \o acc
        RECURSIVE Go(_, _)
        Go(acc, i) == IF i > Len(s) THEN acc ELSE Go(Ins(acc, s[i]), i + 1)
    IN Go(<<>>, 1)

topological_sort_unsorted(o, rel) == safe_topological_sort(o, rel)

\* The outcomes of topological_sort(): the exception of
\* _safe_topological_sort, or its list sorted by (depth, id).
topological_sort(o, rel) ==
    {IF r.kind = "ok" THEN [kind |-> "ok", ids |-> sorted_by_key(r.ids, o, rel)] ELSE r :
        r \in safe_topological_sort(o, rel)}

---------------------------------------------------------------------------
(* The state after construction: GianttGraph(), GianttDoctor(graph),      *)
(* LogCollection()                                                         *)

\* no graph operation called yet
NoBefore == [order |-> <<>>, relations |-> NoItems,
             include_file |-> <<>>, occlude_file |-> <<>>]

NoArgs == [op |-> "none"]

NoResult == [kind |-> "none"]

\* no GianttItem yet
NoItem == [kind |-> "none"]

\* no LogEntry yet
NoEntry == [kind |-> "none"]

NoOutcome == [kind |-> "none", ids |-> <<>>]

NoDiagnosis == [rel |-> NoItems, check |-> "none", fresh |-> FALSE, fixes |-> 0]

Init ==
    /\ order = <<>>
    /\ relations = NoItems
    /\ outcome = NoOutcome
    /\ firstOutcome = NoOutcome
    /\ issues = <<>>
    /\ fixed_issues = <<>>
    /\ diagnosed = NoDiagnosis
    /\ attempted = <<>>
    /\ returned = <<>>
    /\ entries = <<>>
    /\ serial = 0
    /\ other = <<>>
    /\ original = NoItem
    /\ formatted = <<>>
    /\ parsed = NoItem
    /\ reformatted = <<>>
    /\ titles = NoItems
    /\ args = NoArgs
    /\ result = NoResult
    /\ occlude = NoItems
    /\ include_file = <<>>
    /\ occlude_file = <<>>
    /\ temp_include = <<>>
    /\ temp_occlude = <<>>
    /\ save_items = <<>>
    /\ pc = "idle"
    /\ atStart = NoBefore
    /\ log_entry = NoEntry
    /\ copy_order = <<>>
    /\ copy_relations = NoItems
    /\ shared = {}
    /\ copy_ops = 0
    /\ lastOp = "init"

---------------------------------------------------------------------------
(* SortSpec: graphs over the REQUIRES relation, sorted *)

\* relations of an item as from_string builds them: no REQUIRES key, or a
\* non-empty list of targets (repeats allowed)
SortItemRelations ==
    {NoRelations} \cup
    {<< <<"REQUIRES", t>> >> : t \in SeqsUpTo(Ids, MaxRelEntries) \ {<<>>}}

\* graph.add_item(item), for an item whose id is not in the graph yet
SortAddItem ==
    \E id \in Ids \ ItemIds(order), itemRel \in SortItemRelations :
        LET rel == add_item_relations(relations, id, itemRel)
        IN /\ RelEntries(rel) <= MaxRelEntries
           /\ order' = add_item_order(order, id)
           /\ relations' = rel
           /\ outcome' = NoOutcome
           /\ firstOutcome' = NoOutcome
           /\ lastOp' = "add_item"
           /\ UNCHANGED <<doctorVars, logVars, codecVars, graphOpVars, cliVars, entryVars, copyVars>>

\* graph.topological_sort()
TopologicalSort ==
    \E r \in topological_sort(order, relations) :
        /\ outcome' = r
        /\ lastOp' = "topological_sort"
        /\ UNCHANGED <<graphVars, firstOutcome, doctorVars, logVars, codecVars, graphOpVars, cliVars,
                       entryVars, copyVars>>

\* A second GianttGraph() filled by add_item with the same items in another
\* order; the outcome on the first graph is kept for comparison.
Rebuild ==
    /\ outcome.kind # "none"
    /\ \E p \in Perms(ItemIds(order)) :
        /\ p # order
        /\ order' = p
    /\ firstOutcome' = outcome
    /\ outcome' = NoOutcome
    /\ lastOp' = "rebuild"
    /\ UNCHANGED <<relations, doctorVars, logVars, codecVars, graphOpVars, cliVars,
                   entryVars, copyVars>>

SortNext == SortAddItem \/ TopologicalSort \/ Rebuild

SortSpec == Init /\ [][SortNext]_vars

---------------------------------------------------------------------------
(* Properties of topological_sort (checked under SortSpec) *)

\* x REQUIRES y, both keys of the graph
RequiresEdges(o, rel) ==
    {e \in ItemIds(o) \X ItemIds(o) : Contains(RelGet(rel, e[1], "REQUIRES"), e[2])}

\* the pairs joined by a path of one or more edges of R over the nodes S
TransitiveClosure(R, S) ==
    LET RECURSIVE Close(_, _)
        Close(T, rest) ==
            IF rest = {} THEN T
            ELSE LET k == CHOOSE n \in rest : TRUE
                 IN Close(T \cup {e \in S \X S : <<e[1], k>> \in T /\ <<k, e[2]>> \in T},
                          rest \ {k})
    IN Close(R, S)

HasCycle(o, rel) ==
    \E x \in ItemIds(o) :
        <<x, x>> \in TransitiveClosure(RequiresEdges(o, rel), ItemIds(o))

\* The graph's items are exactly the nodes of one simple REQUIRES cycle:
\* each requires exactly one present item and every item leads to every item.
IsSimpleCycle(o, rel) ==
    /\ o # <<>>
    /\ \A x \in ItemIds(o) : Cardinality({e \in RequiresEdges(o, rel) : e[1] = x}) = 1
    /\ TransitiveClosure(RequiresEdges(o, rel), ItemIds(o)) = ItemIds(o) \X ItemIds(o)

\* C1: for an acyclic item set, the sort of the graph rebuilt in another
\* insertion order returns the same id sequence as the sort of the first graph.
C1_SortIndependentOfInsertionOrder ==
    (/\ ~HasCycle(order, relations)
     /\ outcome.kind # "none"
     /\ firstOutcome.kind # "none")
    => /\ outcome.kind = "ok"
       /\ firstOutcome.kind = "ok"
       /\ outcome.ids = firstOutcome.ids

\* two sorts of three items in different insertion orders, the result not
\* being the insertion order of the second graph
C1_Witness ==
    /\ outcome.kind = "ok"
    /\ firstOutcome.kind = "ok"
    /\ Len(order) = 3
    /\ RelEntries(relations) >= 1
    /\ outcome.ids # order

\* C2: topological_sort raises CycleDetected exactly when REQUIRES restricted
\* to present ids has a directed cycle (a self-requirement included), and
\* it always ends with an outcome.
C2_CycleDetectedIffCycle ==
    /\ outcome.kind # "none" =>
          (outcome.kind = "cycle" <=> HasCycle(order, relations))
    /\ lastOp = "add_item" => topological_sort(order, relations) # {}

\* a self-requirement reported as a cycle
C2_Witness ==
    /\ outcome.kind = "cycle"
    /\ \E x \in ItemIds(order) : Contains(RelGet(relations, x, "REQUIRES"), x)
    /\ \A x, y \in ItemIds(order) :
          Contains(RelGet(relations, x, "REQUIRES"), y) => x = y

\* C3: a returned result holds every item exactly once, each after every
\* present item of its REQUIRES list.
C3_DependenciesFirst ==
    outcome.kind = "ok" =>
        /\ Len(outcome.ids) = Len(order)
        /\ Range(outcome.ids) = ItemIds(order)
        /\ \A i, j \in 1..Len(outcome.ids) :
              Contains(RelGet(relations, outcome.ids[i], "REQUIRES"), outcome.ids[j])
                  => j < i

\* a chain of three where ids alone would order a dependency last, with a
\* dangling target beside it
C3_Witness ==
    /\ outcome.kind = "ok"
    /\ Len(order) = 2
    /\ \E x, y \in ItemIds(order) :
          /\ Contains(RelGet(relations, x, "REQUIRES"), y)
          /\ IdRank(y) > IdRank(x)
    /\ \E x \in ItemIds(order) :
          Range(RelGet(relations, x, "REQUIRES")) \ ItemIds(order) # {}

\* C4: on a graph that is one simple cycle of n items, the reported list has
\* n+1 ids, starts and ends with the same id, follows the REQUIRES edges
\* and goes through every item, from whichever node the walk starts.
C4_SimpleCycleReported ==
    (IsSimpleCycle(order, relations) /\ outcome.kind # "none") =>
        LET n == Len(order)
            c == outcome.ids
        IN /\ outcome.kind = "cycle"
           /\ Len(c) = n + 1
           /\ c[1] = c[n + 1]
           /\ \A i \in 1..n : Contains(RelGet(relations, c[i], "REQUIRES"), c[i + 1])
           /\ {c[i] : i \in 1..n} = ItemIds(order)

\* a cycle of three reported from a node that is not the first inserted,
\* after another rotation was reported for the same items
C4_Witness ==
    /\ IsSimpleCycle(order, relations)
    /\ Len(order) = 3
    /\ outcome.kind = "cycle"
    /\ firstOutcome.kind = "cycle"
    /\ outcome.ids # firstOutcome.ids
    /\ outcome.ids[1] # order[1]

\* C5: whenever CycleDetected is raised, its id list is non-empty, closed
\* (first id = last id) and each id has the next one in its REQUIRES list.
C5_CycleListIsClosedPath ==
    outcome.kind = "cycle" =>
        LET c == outcome.ids
        IN /\ c # <<>>
           /\ c[1] = c[Len(c)]
           /\ \A i \in 1..(Len(c) - 1) :
                 Contains(RelGet(relations, c[i], "REQUIRES"), c[i + 1])

\* the graph with every REQUIRES target that is no key of it taken out of
\* the REQUIRES lists
WithoutDangling(o, rel) ==
    [id \in DOMAIN rel |->
        [k \in 1..Len(rel[id]) |->
            IF rel[id][k][1] = "REQUIRES"
            THEN <<"REQUIRES", SelectSeq(rel[id][k][2], LAMBDA t : t \in ItemIds(o))>>
            ELSE rel[id][k]]]

\* C21: REQUIRES targets that are no keys of the graph never make
\* topological_sort fail and never change its result: its outcome is the
\* outcome on the graph without them (the same id order, or
\* CycleDetected on both).
C21_DanglingTargetsIgnored ==
    outcome.kind # "none" =>
        LET pruned == topological_sort(order, WithoutDangling(order, relations))
        IN /\ pruned # {}
           /\ \A r \in pruned :
                 /\ r.kind = outcome.kind
                 /\ outcome.kind = "ok" => r.ids = outcome.ids

\* a sort of two items, one requiring the other item and an absent one,
\* and the other item requiring an absent one
C21_Witness ==
    /\ outcome.kind = "ok"
    /\ Len(order) = 2
    /\ WithoutDangling(order, relations) # relations
    /\ \E x, y \in ItemIds(order) :
          /\ x # y
          /\ Contains(RelGet(relations, x, "REQUIRES"), y)
          /\ Range(RelGet(relations, x, "REQUIRES")) \ ItemIds(order) # {}
          /\ Range(RelGet(relations, y, "REQUIRES")) \ ItemIds(order) # {}

---------------------------------------------------------------------------
(* LogCollection *)

\* Bounds of the log specifications: entries held, distinct timestamps, and
\* entries handed to one add_entries call.
MaxEntries == 4
MaxTime == 3
MaxMerge == 2

\* A LogEntry: its timestamp, and n, the order of creation, which tells two
\* entries with one timestamp apart.
NewEntry(ts, n) == [timestamp |-> ts, n |-> n]

\* list.insert(i, x) for i >= 0, positions counted from 0
list_insert(es, i, x) ==
    LET k == IF i > Len(es) THEN Len(es) ELSE i
    IN SubSeq(es, 1, k) \o <<x>> \o SubSeq(es, k + 1, Len(es))

\* get_first_index_after_timestamp, positions counted from 0 as in the code
\* (es[mid + 1] is Python's entries[mid])
get_first_index_after_timestamp(es, ts) ==
    LET RECURSIVE Search(_, _)
        Search(low, high) ==
            IF low < high
            THEN LET mid == (low + high) \div 2
                 IN IF es[mid + 1].timestamp < ts
                    THEN Search(mid + 1, high)
                    ELSE Search(low, mid)
            ELSE low
    IN IF es = <<>> THEN 0
       ELSE IF ts >= es[Len(es)].timestamp THEN Len(es) - 1
       ELSE IF ts < es[1].timestamp THEN 0
       ELSE Search(0, Len(es) - 1)

\* add_entry
add_entry(es, entry) ==
    list_insert(es, get_first_index_after_timestamp(es, entry.timestamp) + 1, entry)

\* sort: list.sort(key=lambda e: e.timestamp), which is stable
sort(es) ==
    LET RECURSIVE Ins(_, _)
        Ins(acc, x) ==
            IF acc = <<>> THEN <<x>>
            ELSE IF Head(acc).timestamp <= x.timestamp
            THEN <<Head(acc)>> \o Ins(Tail(acc), x)
            ELSE <<x>> \o acc
        RECURSIVE Go(_, _)
        Go(acc, i) == IF i > Len(es) THEN acc ELSE Go(Ins(acc, es[i]), i + 1)
    IN Go(<<>>, 1)

add_entries_without_sort(es, new) == es \o new

\* add_entries: extend, then sort
add_entries(es, new) == sort(es \o new)

\* logs.add_entry(entry) for a new entry with any timestamp
AddEntry ==
    /\ Len(entries) < MaxEntries
    /\ \E ts \in 1..MaxTime :
          entries' = add_entry(entries, NewEntry(ts, serial + 1))
    /\ serial' = serial + 1
    /\ other' = <<>>
    /\ lastOp' = "add_entry"
    /\ UNCHANGED <<graphVars, sortVars, doctorVars, codecVars, graphOpVars, cliVars,
                   entryVars, copyVars>>

\* logs.add_entries(other.entries) for new entries in any order
AddEntries ==
    /\ \E tss \in SeqsUpTo(1..MaxTime, MaxMerge) :
          /\ Len(entries) + Len(tss) <= MaxEntries
          /\ other' = [i \in 1..Len(tss) |-> NewEntry(tss[i], serial + i)]
          /\ entries' = add_entries(entries, other')
          /\ serial' = serial + Len(tss)
    /\ lastOp' = "add_entries"
    /\ UNCHANGED <<graphVars, sortVars, doctorVars, codecVars, graphOpVars, cliVars,
                   entryVars, copyVars>>

\* a store grown by add_entry alone
InsertSpec == Init /\ [][AddEntry]_vars

LogNext == AddEntry \/ AddEntries

LogSpec == Init /\ [][LogNext]_vars

---------------------------------------------------------------------------
(* Properties of LogCollection *)

IsTimeSorted(es) == \A i, j \in 1..Len(es) : i < j => es[i].timestamp <= es[j].timestamp

\* C9 (InsertSpec): from the empty store, the sequence is in non-decreasing
\* timestamp order after every add_entry.
C9_SortedAfterEveryInsert == IsTimeSorted(entries)

\* C10 (LogSpec): add_entry on a time-sorted store that holds entries with the
\* new entry's timestamp places it after all of them: everything before it
\* is not later, everything after it is strictly later.
C10_InsertedAfterEqualTimestamps ==
    lastOp = "add_entry" =>
        LET i == CHOOSE k \in 1..Len(entries) : entries[k].n = serial
            before == SubSeq(entries, 1, i - 1) \o SubSeq(entries, i + 1, Len(entries))
            ts == entries[i].timestamp
        IN (IsTimeSorted(before) /\ \E k \in 1..Len(before) : before[k].timestamp = ts)
           => /\ \A k \in 1..(i - 1) : entries[k].timestamp <= ts
              /\ \A k \in (i + 1)..Len(entries) : entries[k].timestamp > ts

---------------------------------------------------------------------------
(* GianttDoctor *)

\* str.upper() / str.lower() of the relation words the doctor handles
CaseTable ==
    {<<"REQUIRES", "requires">>, <<"ANYOF", "anyof">>,
     <<"SUPERCHARGES", "supercharges">>, <<"INDICATES", "indicates">>,
     <<"TOGETHER", "together">>, <<"CONFLICTS", "conflicts">>,
     <<"BLOCKS", "blocks">>, <<"SUFFICIENT", "sufficient">>, <<"ANY", "any">>}

Lower(name) == (CHOOSE p \in CaseTable : p[1] = name)[2]

Upper(word) == (CHOOSE p \in CaseTable : p[2] = word)[1]

\* `word in text.lower()` for a lower-case relation word and the pieces of
\* text an issue message is put together from: the ids of IdSeq, the
\* lower-case relation words, and the fixed parts of the messages
Mentions(text, word) ==
    \/ text = word
    \/ <<text, word>> \in
          {<<"requires_c", "requires">>,
           <<"Item blocks '", "blocks">>,
           <<"Item requires '", "requires">>,
           <<"Item is sufficient for '", "sufficient">>,
           <<"' but isn't sufficient for it", "sufficient">>}

\* An Issue.  message is the f-string as the sequence of its pieces;
\* suggested_fix is the f-string as the sequence of its whitespace-separated
\* words (what suggested_fix.split() returns: ids hold no whitespace).
Issue(type, item_id, message, related_ids, suggested_fix) ==
    [type |-> type, item_id |-> item_id, message |-> message,
     related_ids |-> related_ids, suggested_fix |-> suggested_fix]

\* the concatenation of F(s[1]), ..., F(s[n])
FlatMap(s, F(_)) ==
    LET RECURSIVE Go(_)
        Go(i) == IF i > Len(s) THEN <<>> ELSE F(s[i]) \o Go(i + 1)
    IN Go(1)

\* _check_references: one issue per occurrence of a target that is no key
\* of the graph, in the order of items, relation keys and targets
check_references(o, rel) ==
    FlatMap(o, LAMBDA item_id :
        FlatMap(rel[item_id], LAMBDA pair :
            FlatMap(pair[2], LAMBDA target :
                IF target \notin ItemIds(o)
                THEN <<Issue("DANGLING_REFERENCE", item_id,
                             <<"References non-existent item '", target, "' in ",
                               Lower(pair[1]), " relation">>,
                             <<target>>,
                             <<"giantt", "modify", item_id, "--remove",
                               Lower(pair[1]), target>>)>>
                ELSE <<>>)))

\* the four issues of _check_chains
BlocksIssue(item_id, blocked) ==
    Issue("INCOMPLETE_CHAIN", item_id,
          <<"Item blocks '", blocked, "' but isn't required by it">>,
          <<blocked>>,
          <<"giantt", "modify", blocked, "--add", "requires", item_id>>)

RequiresIssue(item_id, required) ==
    Issue("INCOMPLETE_CHAIN", item_id,
          <<"Item requires '", required, "' but isn't blocked by it">>,
          <<required>>,
          <<"giantt", "modify", required, "--add", "blocks", item_id>>)

SufficientIssue(item_id, sufficient) ==
    Issue("INCOMPLETE_CHAIN", item_id,
          <<"Item is sufficient for '", sufficient,
            "' but doesn't have any-of relation with it">>,
          <<sufficient>>,
          <<"giantt", "modify", sufficient, "--add", "any", item_id>>)

AnyofIssue(item_id, anyof_item) ==
    Issue("INCOMPLETE_CHAIN", item_id,
          <<"Item has any-of relation with '", anyof_item,
            "' but isn't sufficient for it">>,
          <<anyof_item>>,
          <<"giantt", "modify", anyof_item, "--add", "sufficient", item_id>>)

\* the key under which _check_chains looks up the any-of lists
anyof_map_key == "ANY"

\* One loop of _check_chains over the map of key `fwd`, checked against the
\* map of key `rev`, appending the issue of that loop: the possible issue
\* lists.  The maps hold sets, iterated
\* in any order.
chain_loop(o, rel, fwd, rev) ==
    LET MkIssue(item_id, t) ==
            IF fwd = "BLOCKS" THEN BlocksIssue(item_id, t)
            ELSE IF fwd = "REQUIRES" THEN RequiresIssue(item_id, t)
            ELSE IF fwd = "SUFFICIENT" THEN SufficientIssue(item_id, t)
            ELSE AnyofIssue(item_id, t)
        Hits(item_id) ==
            {t \in Range(RelGet(rel, item_id, fwd)) :
                t \in ItemIds(o) /\ item_id \notin Range(RelGet(rel, t, rev))}
        RECURSIVE Go(_)
        Go(i) ==
            IF i > Len(o) THEN {<<>>}
            ELSE {[k \in 1..Len(p) |-> MkIssue(o[i], p[k])] \o rest :
                      p \in Perms(Hits(o[i])), rest \in Go(i + 1)}
    IN Go(1)

\* _check_chains: the possible lists of issues it appends
check_chains(o, rel) ==
    {b \o r \o s \o a :
        b \in chain_loop(o, rel, "BLOCKS", "REQUIRES"),
        r \in chain_loop(o, rel, "REQUIRES", "BLOCKS"),
        s \in chain_loop(o, rel, "SUFFICIENT", anyof_map_key),
        a \in chain_loop(o, rel, anyof_map_key, "SUFFICIENT")}

quick_check_with_chains(o, rel) ==
    check_references(o, rel) \o (CHOOSE c \in check_chains(o, rel) : TRUE)

\* quick_check: the new self.issues (its length is returned)
quick_check(o, rel) == check_references(o, rel)

\* full_diagnosis: the possible new self.issues
full_diagnosis(o, rel) ==
    {check_references(o, rel) \o c : c \in check_chains(o, rel)}

\* list.remove(x): without the first occurrence of x
list_remove(s, x) ==
    LET i == IndexOf(s, x)
    IN SubSeq(s, 1, i - 1) \o SubSeq(s, i + 1, Len(s))

\* the graph with item id's relations replaced
WithRelations(rel, id, itemRel) == [rel EXCEPT ![id] = itemRel]

Unfixed(rel) == [ok |-> FALSE, rel |-> rel]

\* _fix_dangling_reference: whether it fixed the issue, and the graph after
fix_dangling_reference(issue, o, rel) ==
    IF issue.item_id \notin ItemIds(o) THEN Unfixed(rel)
    ELSE
    LET item == rel[issue.item_id]
        \* member names whose lower-case form occurs in the message
        named == SelectSeq(RelationType, LAMBDA rel_name :
                     \E i \in 1..Len(issue.message) :
                         Mentions(issue.message[i], Lower(rel_name)))
    IN IF named = <<>> THEN Unfixed(rel)
       ELSE IF issue.message[1] # "References non-existent item '" THEN Unfixed(rel)
       ELSE
       LET rel_type == named[1]
           \* re.search(r"non-existent item '([^']+)'", message).group(1)
           target == issue.message[2]
       IN IF DictHas(item, rel_type) /\ Contains(DictAt(item, rel_type), target)
          THEN LET left == list_remove(DictAt(item, rel_type), target)
               IN [ok |-> TRUE,
                   rel |-> WithRelations(rel, issue.item_id,
                               IF left = <<>> THEN DictDel(item, rel_type)
                               ELSE DictSet(item, rel_type, left))]
          ELSE Unfixed(rel)

fix_incomplete_chain_on_the_reporting_item(issue, o, rel) ==
    IF \/ issue.item_id \notin ItemIds(o)
       \/ issue.related_ids = <<>>
       \/ Len(issue.suggested_fix) < 6
    THEN Unfixed(rel)
    ELSE LET rel_type == Upper(issue.suggested_fix[5])
             target_item == rel[issue.item_id]
             targets == DictGet(target_item, rel_type, <<>>)
         IN [ok |-> TRUE,
             rel |-> WithRelations(rel, issue.item_id,
                         DictSet(target_item, rel_type,
                                 Append(targets, issue.suggested_fix[6])))]

\* _fix_incomplete_chain: whether it fixed the issue, and the graph after
fix_incomplete_chain(issue, o, rel) ==
    IF issue.related_ids = <<>> \/ issue.suggested_fix = <<>> THEN Unfixed(rel)
    ELSE IF issue.item_id \notin ItemIds(o) \/ issue.related_ids[1] \notin ItemIds(o)
    THEN Unfixed(rel)
    ELSE
    LET parts == issue.suggested_fix
    IN IF Len(parts) < 4 THEN Unfixed(rel)
       ELSE
       LET target_id == parts[3]
           action == parts[4]
       IN IF target_id # issue.item_id /\ target_id # issue.related_ids[1]
          THEN Unfixed(rel)
          ELSE IF action = "--add" /\ Len(parts) > 4
          THEN LET rel_type == Upper(parts[5])
                   target_item == rel[target_id]
                   \* setdefault(rel_type, [])
                   with_key == IF DictHas(target_item, rel_type) THEN target_item
                               ELSE DictSet(target_item, rel_type, <<>>)
                   targets == DictAt(with_key, rel_type)
               IN [ok |-> TRUE,
                   rel |-> WithRelations(rel, target_id,
                               IF Contains(targets, parts[6]) THEN with_key
                               ELSE DictSet(with_key, rel_type, Append(targets, parts[6])))]
          ELSE Unfixed(rel)

\* _fix_issue
fix_issue(issue, o, rel) ==
    IF issue.type = "DANGLING_REFERENCE" THEN fix_dangling_reference(issue, o, rel)
    ELSE IF issue.type = "INCOMPLETE_CHAIN" THEN fix_incomplete_chain(issue, o, rel)
    ELSE Unfixed(rel)

\* the types fix_issues can be asked for, "None" for no filter
IssueTypeFilters == {"None", "DANGLING_REFERENCE", "INCOMPLETE_CHAIN"}

fix_issues_keeping_issues(issue_type, item_id, iss, o, rel) ==
    LET issues_to_fix ==
            SelectSeq(iss, LAMBDA issue :
                /\ issue_type # "None" => issue.type = issue_type
                /\ item_id # "None" => issue.item_id = item_id)
        RECURSIVE Go(_, _, _)
        Go(i, g, fixed) ==
            IF i > Len(issues_to_fix) THEN [rel |-> g, fixed |-> fixed]
            ELSE LET r == fix_issue(issues_to_fix[i], o, g)
                 IN Go(i + 1, r.rel,
                       IF r.ok THEN Append(fixed, issues_to_fix[i]) ELSE fixed)
        done == Go(1, rel, <<>>)
    IN [rel |-> done.rel, fixed |-> done.fixed, issues |-> iss,
        issues_to_fix |-> issues_to_fix]

\* fix_issues(issue_type, item_id): the graph after, the list returned,
\* self.issues after, and the issues it tried to fix
fix_issues(issue_type, item_id, iss, o, rel) ==
    LET issues_to_fix ==
            SelectSeq(iss, LAMBDA issue :
                /\ issue_type # "None" => issue.type = issue_type
                /\ item_id # "None" => issue.item_id = item_id)
        RECURSIVE Go(_, _, _)
        Go(i, g, fixed) ==
            IF i > Len(issues_to_fix) THEN [rel |-> g, fixed |-> fixed]
            ELSE LET r == fix_issue(issues_to_fix[i], o, g)
                 IN Go(i + 1, r.rel,
                       IF r.ok THEN Append(fixed, issues_to_fix[i]) ELSE fixed)
        done == Go(1, rel, <<>>)
        RECURSIVE Drop(_, _)
        Drop(left, i) ==
            IF i > Len(done.fixed) THEN left
            ELSE Drop(IF Contains(left, done.fixed[i])
                      THEN list_remove(left, done.fixed[i]) ELSE left, i + 1)
    IN [rel |-> done.rel, fixed |-> done.fixed, issues |-> Drop(iss, 1),
        issues_to_fix |-> issues_to_fix]

---------------------------------------------------------------------------
(* DoctorSpec: a graph is loaded, then a GianttDoctor works on it *)

\* Total number of relation entries a graph is loaded with in DoctorSpec,
\* and the number of fix_issues calls made on one doctor.
MaxDoctorEntries == 2
MaxFixCalls == 2

\* the relation kinds the loaded items use: the four the chain checks
\* pair up, and one they leave alone
LoadedKinds == {"REQUIRES", "ANYOF", "TOGETHER", "BLOCKS", "SUFFICIENT"}

\* ids of the items loaded; the other ids of Ids occur as targets only
DoctorItemIds == {"a", "b"}

\* relations as from_string builds them: keys in RelationType order, each
\* with a non-empty list, at most n entries in all
ParsedRelationsOf(kinds, n) ==
    LET RECURSIVE Gen(_, _)
        Gen(i, budget) ==
            IF i > Len(RelationType) THEN {<<>>}
            ELSE IF RelationType[i] \notin kinds THEN Gen(i + 1, budget)
            ELSE Gen(i + 1, budget) \cup
                 UNION {{<< <<RelationType[i], t>> >> \o rest :
                             rest \in Gen(i + 1, budget - Len(t))} :
                         t \in SeqsUpTo(Ids, budget) \ {<<>>}}
    IN Gen(1, n)

ParsedRelations(n) == ParsedRelationsOf(LoadedKinds, n)

\* graph.add_item(item) while the file is loaded
DoctorAddItem ==
    /\ lastOp \in {"init", "add_item"}
    /\ \E id \in DoctorItemIds \ ItemIds(order),
          itemRel \in ParsedRelations(MaxDoctorEntries - RelEntries(relations)) :
          /\ order' = add_item_order(order, id)
          /\ relations' = add_item_relations(relations, id, itemRel)
    /\ lastOp' = "add_item"
    /\ UNCHANGED <<sortVars, doctorVars, logVars, codecVars, graphOpVars, cliVars,
                   entryVars, copyVars>>

\* doctor.quick_check()
QuickCheck ==
    /\ issues' = quick_check(order, relations)
    /\ returned' = Len(issues')
    /\ diagnosed' = [diagnosed EXCEPT !.rel = relations, !.check = "quick", !.fresh = TRUE]
    /\ attempted' = <<>>
    /\ lastOp' = "quick_check"
    /\ UNCHANGED <<graphVars, sortVars, fixed_issues, logVars, codecVars, graphOpVars, cliVars,
                   entryVars, copyVars>>

\* doctor.full_diagnosis()
FullDiagnosis ==
    /\ issues' \in full_diagnosis(order, relations)
    /\ returned' = issues'
    /\ diagnosed' = [diagnosed EXCEPT !.rel = relations, !.check = "full", !.fresh = TRUE]
    /\ attempted' = <<>>
    /\ lastOp' = "full_diagnosis"
    /\ UNCHANGED <<graphVars, sortVars, fixed_issues, logVars, codecVars, graphOpVars, cliVars,
                   entryVars, copyVars>>

\* doctor.fix_issues(issue_type, item_id)
FixIssues ==
    /\ diagnosed.fixes < MaxFixCalls
    /\ \E issue_type \in IssueTypeFilters, item_id \in {"None"} \cup ItemIds(order) :
          LET r == fix_issues(issue_type, item_id, issues, order, relations)
          IN /\ relations' = r.rel
             /\ issues' = r.issues
             /\ fixed_issues' = fixed_issues \o r.fixed
             /\ returned' = r.fixed
             /\ attempted' = r.issues_to_fix
    /\ diagnosed' = [diagnosed EXCEPT !.fresh = FALSE, !.fixes = @ + 1]
    /\ lastOp' = IF diagnosed.fresh THEN "fix_issues" ELSE "fix_issues_again"
    /\ UNCHANGED <<order, sortVars, logVars, codecVars, graphOpVars, cliVars,
                   entryVars, copyVars>>

DoctorNext == DoctorAddItem \/ QuickCheck \/ FullDiagnosis \/ FixIssues

DoctorSpec == Init /\ [][DoctorNext]_vars

---------------------------------------------------------------------------
(* Properties of the doctor's checks and fixes (DoctorSpec) *)

\* number of positions of s whose element satisfies P
CountIf(s, P(_)) == Cardinality({i \in 1..Len(s) : P(s[i])})

\* number of occurrences of target y in all the relation lists of item x
Occurrences(rel, x, y) ==
    LET RECURSIVE Sum(_)
        Sum(k) == IF k > Len(rel[x]) THEN 0
                  ELSE CountIf(rel[x][k][2], LAMBDA t : t = y) + Sum(k + 1)
    IN Sum(1)

IsDangling(issue, x, y) ==
    /\ issue.type = "DANGLING_REFERENCE"
    /\ issue.item_id = x
    /\ issue.related_ids = <<y>>

\* the state right after fix_issues was called on the result of a
\* full_diagnosis of the graph diagnosed.rel
FixedAfterFullDiagnosis == lastOp = "fix_issues" /\ diagnosed.check = "full"

\* C6: for every item X and every id Y absent from the graph, full_diagnosis
\* produces exactly one DANGLING_REFERENCE issue for X with related_ids = [Y]
\* per occurrence of Y in X's relation lists; after fix_issues was applied to
\* such an issue, Y is in no relation list K of X that held it, and a
\* following full_diagnosis reports no DANGLING_REFERENCE issue for X and Y
\* (none at all when every dangling issue was applied).
C6_DanglingReportedOnceAndFixed ==
    /\ lastOp = "full_diagnosis" =>
          \A x \in ItemIds(order), y \in Ids \ ItemIds(order) :
              CountIf(issues, LAMBDA i : IsDangling(i, x, y))
                  = Occurrences(relations, x, y)
    /\ FixedAfterFullDiagnosis =>
          \A x \in ItemIds(order), y \in Ids \ ItemIds(order) :
              (\E n \in 1..Len(attempted) : IsDangling(attempted[n], x, y)) =>
                  /\ \A K \in Range(RelationType) :
                        ~Contains(RelGet(relations, x, K), y)
                  /\ \A d \in full_diagnosis(order, relations) :
                        CountIf(d, LAMBDA i : IsDangling(i, x, y)) = 0
    /\ (/\ FixedAfterFullDiagnosis
        /\ CountIf(attempted, LAMBDA i : i.type = "DANGLING_REFERENCE")
              = Len(check_references(order, diagnosed.rel))) =>
          \A d \in full_diagnosis(order, relations) :
              CountIf(d, LAMBDA i : i.type = "DANGLING_REFERENCE") = 0

IsChainIssue(issue, x, y, added_kind) ==
    /\ issue.type = "INCOMPLETE_CHAIN"
    /\ issue.item_id = x
    /\ issue.related_ids = <<y>>
    /\ issue.suggested_fix[5] = added_kind

\* A has B in its `fwd` list and B lacks A in its `rev` list
OneDirectional(rel, A, B, fwd, rev) ==
    /\ Contains(RelGet(rel, A, fwd), B)
    /\ ~Contains(RelGet(rel, B, rev), A)

\* full_diagnosis has just reported exactly one issue for the one-directional
\* instance of every such pair
ReportedOnce(fwd, rev) ==
    lastOp = "full_diagnosis" =>
        \A A \in ItemIds(order), B \in ItemIds(order) :
            OneDirectional(relations, A, B, fwd, rev) =>
                CountIf(issues, LAMBDA i : IsChainIssue(i, A, B, Lower(rev))) = 1

\* fix_issues applied to the issue put A in B's `rev` list, and no
\* full_diagnosis of the graph reports the issue again
FixAddsReverse(fwd, rev) ==
    FixedAfterFullDiagnosis =>
        \A A \in ItemIds(order), B \in ItemIds(order) :
            (/\ OneDirectional(diagnosed.rel, A, B, fwd, rev)
             /\ \E n \in 1..Len(attempted) :
                    IsChainIssue(attempted[n], A, B, Lower(rev))) =>
                /\ Contains(RelGet(relations, B, rev), A)
                /\ \A d \in full_diagnosis(order, relations) :
                      CountIf(d, LAMBDA i : IsChainIssue(i, A, B, Lower(rev))) = 0

\* C7: for present items A and B, when A has B in BLOCKS and B lacks A in
\* REQUIRES, full_diagnosis reports exactly one INCOMPLETE_CHAIN issue for it
\* and its fix adds A to B's REQUIRES list; when B has A in REQUIRES and A
\* lacks B in BLOCKS, it reports exactly one INCOMPLETE_CHAIN issue and its
\* fix adds B to A's BLOCKS list; a diagnosis after the fix no longer reports
\* the issue.
C7_BlocksRequiresChainFixed ==
    /\ ReportedOnce("BLOCKS", "REQUIRES")
    /\ FixAddsReverse("BLOCKS", "REQUIRES")
    /\ ReportedOnce("REQUIRES", "BLOCKS")
    /\ FixAddsReverse("REQUIRES", "BLOCKS")

\* both directions were reported, applied and fixed between two items
C7_Witness ==
    /\ FixedAfterFullDiagnosis
    /\ \E A \in ItemIds(order), B \in ItemIds(order) :
          /\ A # B
          /\ OneDirectional(diagnosed.rel, A, B, "BLOCKS", "REQUIRES")
          /\ OneDirectional(diagnosed.rel, A, B, "REQUIRES", "BLOCKS")
          /\ \E n \in 1..Len(returned) : IsChainIssue(returned[n], A, B, "requires")
          /\ \E n \in 1..Len(returned) : IsChainIssue(returned[n], A, B, "blocks")
          /\ Contains(RelGet(relations, B, "REQUIRES"), A)
          /\ Contains(RelGet(relations, B, "BLOCKS"), A)

\* C8: for present items A and B, when A has B in SUFFICIENT and B lacks A in
\* ANYOF, full_diagnosis reports an INCOMPLETE_CHAIN issue whose fix adds A
\* to B's ANYOF list; when B has A in ANYOF and A lacks B in SUFFICIENT,
\* full_diagnosis reports an INCOMPLETE_CHAIN issue whose fix adds B to A's
\* SUFFICIENT list.
C8_SufficientAnyofChainFixed ==
    /\ lastOp = "full_diagnosis" =>
          \A A \in ItemIds(order), B \in ItemIds(order) :
              /\ OneDirectional(relations, A, B, "SUFFICIENT", "ANYOF") =>
                    \E n \in 1..Len(issues) :
                        /\ issues[n].type = "INCOMPLETE_CHAIN"
                        /\ issues[n].item_id = A
                        /\ issues[n].related_ids = <<B>>
                        /\ Contains(RelGet(fix_issue(issues[n], order, relations).rel,
                                           B, "ANYOF"), A)
              /\ OneDirectional(relations, B, A, "ANYOF", "SUFFICIENT") =>
                    \E n \in 1..Len(issues) :
                        /\ issues[n].type = "INCOMPLETE_CHAIN"
                        /\ issues[n].item_id = B
                        /\ issues[n].related_ids = <<A>>
                        /\ Contains(RelGet(fix_issue(issues[n], order, relations).rel,
                                           A, "SUFFICIENT"), B)
    /\ FixedAfterFullDiagnosis =>
          \A A \in ItemIds(order), B \in ItemIds(order) :
              (/\ OneDirectional(diagnosed.rel, A, B, "SUFFICIENT", "ANYOF")
               /\ \E n \in 1..Len(attempted) :
                      /\ attempted[n].type = "INCOMPLETE_CHAIN"
                      /\ attempted[n].item_id = A
                      /\ attempted[n].related_ids = <<B>>) =>
                  Contains(RelGet(relations, B, "ANYOF"), A)

---------------------------------------------------------------------------
(* Properties of LogCollection.add_entries (LogSpec) *)

\* the two sequences hold the same elements the same number of times
SameBag(s, t) ==
    /\ Len(s) = Len(t)
    /\ \A e \in Range(s) \cup Range(t) :
          CountIf(s, LAMBDA x : x = e) = CountIf(t, LAMBDA x : x = e)

\* C11: after add_entries(other) on any store, sorted or not, the stored
\* sequence is in non-decreasing timestamp order and holds exactly the
\* entries it held before plus all of other: nothing lost, nothing twice.
C11_MergeSortedAndComplete ==
    [][lastOp' = "add_entries" =>
          /\ IsTimeSorted(entries')
          /\ SameBag(entries', entries \o other')]_vars

\* a store was merged with two entries given out of order: one went before
\* a stored entry, the other after a stored entry of its own timestamp
C11_Witness ==
    /\ lastOp = "add_entries"
    /\ Len(other) = 2
    /\ other[1].timestamp > other[2].timestamp
    /\ \E i, j, k \in 1..Len(entries) :
          /\ i < j /\ j < k
          /\ entries[i].n = other[2].n
          /\ entries[j].n < other[2].n
          /\ entries[j].timestamp = entries[k].timestamp
          /\ entries[k].n = other[1].n

---------------------------------------------------------------------------
(* GianttItem.to_string and GianttItem.from_string *)

\* A str is the sequence of its atoms: an atom is a character the codec
\* looks for (space, quote, backslash, brace, bracket, comma, dot, digit,
\* glyph), one of the markers >>> @@@ # ###, or a run of other characters
\* (a word).  A list of str is a sequence of such sequences.

\* s.find(a, from): the first position >= from holding atom a, 0 for none
Find(s, a, from) ==
    IF \E i \in from..Len(s) : s[i] = a
    THEN CHOOSE i \in from..Len(s) : s[i] = a /\ \A j \in from..(i - 1) : s[j] # a
    ELSE 0

\* s.strip()
Strip(s) ==
    LET solid == {i \in 1..Len(s) : s[i] # " "}
    IN IF solid = {} THEN <<>>
       ELSE SubSeq(s, CHOOSE i \in solid : \A j \in solid : i <= j,
                      CHOOSE i \in solid : \A j \in solid : i >= j)

\* s.strip('"')
StripQuotes(s) ==
    LET solid == {i \in 1..Len(s) : s[i] # "\""}
    IN IF solid = {} THEN <<>>
       ELSE SubSeq(s, CHOOSE i \in solid : \A j \in solid : i <= j,
                      CHOOSE i \in solid : \A j \in solid : i >= j)

\* s.split(sep): the pieces between the occurrences of atom sep
Split(s, sep) ==
    LET RECURSIVE Go(_)
        Go(from) ==
            LET i == Find(s, sep, from)
            IN IF i = 0 THEN <<SubSeq(s, from, Len(s))>>
               ELSE <<SubSeq(s, from, i - 1)>> \o Go(i + 1)
    IN Go(1)

\* sep.join(list)
Join(list, sep) ==
    LET RECURSIVE Go(_)
        Go(i) == IF i > Len(list) THEN <<>>
                 ELSE IF i = Len(list) THEN list[i]
                 ELSE list[i] \o sep \o Go(i + 1)
    IN Go(1)

\* [F(x) for x in list]
Map(list, F(_)) == [i \in 1..Len(list) |-> F(list[i])]

\* Status, Priority: the member values (a glyph is written as its code point)
Status == {"U+25CB", "U+25D1", "U+2298", "U+25CF"}

Priority == {",,,", "...", "", "?", "!", "!!", "!!!"}

\* RelationType[name].value
RelationValue ==
    [name \in Range(RelationType) |->
        CASE name = "REQUIRES" -> "U+22A2"
          [] name = "ANYOF" -> "U+22F2"
          [] name = "SUPERCHARGES" -> "U+226B"
          [] name = "INDICATES" -> "U+2234"
          [] name = "TOGETHER" -> "U+222A"
          [] name = "CONFLICTS" -> "U+229F"
          [] name = "BLOCKS" -> "U+25BA"
          [] name = "SUFFICIENT" -> "U+227B"]

\* DurationPart._UNIT_SECONDS
UNIT_SECONDS ==
    [unit \in {"s", "min", "h", "hr", "d", "w", "mo", "y"} |->
        CASE unit = "s" -> 1
          [] unit = "min" -> 60
          [] unit = "h" -> 3600
          [] unit = "hr" -> 3600
          [] unit = "d" -> 86400
          [] unit = "w" -> 604800
          [] unit = "mo" -> 2592000
          [] unit = "y" -> 31536000]

\* DurationPart._UNIT_NORMALIZE
UNIT_NORMALIZE ==
    [unit \in {"hr", "minute", "minutes", "hour", "hours", "day", "days",
               "week", "weeks", "month", "months", "year", "years"} |->
        CASE unit = "hr" -> "h"
          [] unit \in {"minute", "minutes"} -> "min"
          [] unit \in {"hour", "hours"} -> "h"
          [] unit \in {"day", "days"} -> "d"
          [] unit \in {"week", "weeks"} -> "w"
          [] unit \in {"month", "months"} -> "mo"
          [] unit \in {"year", "years"} -> "y"]

Digits == <<"0", "1", "2", "3", "4", "5", "6", "7", "8", "9">>

\* str(n) for an int n >= 0
IntStr(n) ==
    LET RECURSIVE Go(_)
        Go(k) == IF k < 10 THEN <<Digits[k + 1]>>
                 ELSE Go(k \div 10) \o <<Digits[(k % 10) + 1]>>
    IN Go(n)

\* int(s) for a run of digits
StrInt(s) ==
    LET RECURSIVE Go(_)
        Go(i) == IF i = 0 THEN 0
                 ELSE 10 * Go(i - 1) + (IndexOf(Digits, s[i]) - 1)
    IN Go(Len(s))

\* A DurationPart is [amount, unit] with the amount counted in tenths
\* (amounts have one decimal place at most).
\* DurationPart.__str__
DurationPart_str(part) ==
    (IF part.amount % 10 = 0 THEN IntStr(part.amount \div 10)
     ELSE IntStr(part.amount \div 10) \o <<".">> \o IntStr(part.amount % 10))
    \o <<part.unit>>

\* Duration.__str__
Duration_str(parts) ==
    IF parts = <<>> THEN <<"0", "s">>
    ELSE Join(Map(parts, DurationPart_str), <<>>)

\* Duration.total_seconds, in tenths of a second
total_seconds(parts) ==
    LET RECURSIVE Sum(_)
        Sum(i) == IF i > Len(parts) THEN 0
                  ELSE parts[i].amount * UNIT_SECONDS[parts[i].unit] + Sum(i + 1)
    IN Sum(1)

\* json.dumps(title): quoted, with quote and backslash escaped
json_dumps(title) ==
    LET Escaped(a) == IF a \in {"\"", "\\"} THEN <<"\\", a>> ELSE <<a>>
    IN <<"\"">> \o Join(Map(title, Escaped), <<>>) \o <<"\"">>

\* a call that raised
Raised(exception) == [kind |-> "error", exception |-> exception]

\* json.loads(s) of a str that starts with a quote: the decoded str, or
\* JSONDecodeError for an unterminated string, a bad escape or data after
\* the closing quote
json_loads(s) ==
    LET RECURSIVE Go(_, _)
        Go(i, acc) ==
            IF i > Len(s) THEN Raised("JSONDecodeError")
            ELSE IF s[i] = "\"" THEN
                IF i = Len(s) THEN [kind |-> "str", value |-> acc]
                ELSE Raised("JSONDecodeError")
            ELSE IF s[i] = "\\" THEN
                IF i + 1 <= Len(s) /\ s[i + 1] \in {"\"", "\\"}
                THEN Go(i + 2, Append(acc, s[i + 1]))
                ELSE Raised("JSONDecodeError")
            ELSE Go(i + 1, Append(acc, s[i]))
    IN Go(2, <<>>)

\* A GianttItem: status and priority are member values; id, title and the
\* elements of charts and tags are strs; duration is the list of the
\* Duration's parts; relations is a dict of lists of strs; time_constraint,
\* user_comment and auto_comment are <<>> for None and <<value>> otherwise.
GianttItem(status, id, priority, duration, title, charts, tags, rel, time_constraint, user_comment, auto_comment) ==
    [kind |-> "item", status |-> status, id |-> id, priority |-> priority,
     duration |-> duration, title |-> title, charts |-> charts, tags |-> tags,
     relations |-> rel, time_constraint |-> time_constraint,
     user_comment |-> user_comment, auto_comment |-> auto_comment]

\* to_string
to_string(self) ==
    LET charts_str == <<"{", "\"">> \o Join(self.charts, <<"\"", ",", "\"">>)
                      \o <<"\"", "}">>
        tags_str == IF self.tags # <<>> THEN <<" ">> \o Join(self.tags, <<",">>)
                    ELSE <<>>
        rel_parts ==
            FlatMap(self.relations, LAMBDA pair :
                IF pair[2] # <<>>
                THEN << <<RelationValue[pair[1]], "[">>
                        \o Join(pair[2], <<",">>) \o <<"]">> >>
                ELSE <<>>)
        relations_str == IF rel_parts # <<>>
                         THEN <<" ", ">>>", " ">> \o Join(rel_parts, <<" ">>)
                         ELSE <<>>
        title_str == json_dumps(self.title)
        user_comment_str ==
            IF self.user_comment # <<>> /\ self.user_comment[1] # <<>>
            THEN <<" ", "#", " ">> \o self.user_comment[1] ELSE <<>>
        auto_comment_str ==
            IF self.auto_comment # <<>> /\ self.auto_comment[1] # <<>>
            THEN <<" ", "###", " ">> \o self.auto_comment[1] ELSE <<>>
    IN <<self.status, " ">> \o self.id
       \o (IF self.priority = "" THEN <<>> ELSE <<self.priority>>)
       \o <<" ">> \o Duration_str(self.duration)
       \o <<" ">> \o title_str \o <<" ">> \o charts_str \o tags_str
       \o relations_str \o user_comment_str \o auto_comment_str

\* [x for x in list if x]: without the empty strs
NonEmpty(list) == SelectSeq(list, LAMBDA x : x # <<>>)

\* parse_pre_title_section: status, id with priority, and duration
parse_pre_title_section(pre_title) ==
    LET words == NonEmpty(Split(SubSeq(pre_title, 2, Len(pre_title)), " "))
    IN IF /\ Len(pre_title) >= 2
          /\ pre_title[1] \in Status
          /\ pre_title[2] = " "
          /\ Len(words) >= 2
       THEN [kind |-> "match", status |-> pre_title[1],
             id_priority |-> words[1], duration |-> words[2]]
       ELSE Raised("ValueError")

\* the end of the run of digits of s that starts at position i
DigitsEnd(s, i) ==
    LET RECURSIVE Go(_)
        Go(j) == IF j <= Len(s) /\ Contains(Digits, s[j]) THEN Go(j + 1) ELSE j - 1
    IN Go(i)

\* the atoms that are no words
Punctuation ==
    {" ", "\"", "\\", "{", "}", "[", "]", ",", ".", ">>>", "@@@", "#", "###"}
    \cup Status \cup Priority \cup Range(Digits)
    \cup {RelationValue[name] : name \in Range(RelationType)}

\* atoms that are runs of letters
IsLetters(a) == a \notin Punctuation

\* Duration.parse: the parts, or ValueError
Duration_parse(duration_str) ==
    LET RECURSIVE Go(_, _)
        Go(i, parts) ==
            IF i > Len(duration_str) THEN [kind |-> "duration", parts |-> parts]
            ELSE IF ~Contains(Digits, duration_str[i]) THEN Go(i + 1, parts)
            ELSE
            LET whole_end == DigitsEnd(duration_str, i)
                dotted == whole_end < Len(duration_str) /\ duration_str[whole_end + 1] = "."
                frac_end == IF dotted THEN DigitsEnd(duration_str, whole_end + 2)
                            ELSE whole_end
                frac == SubSeq(duration_str, whole_end + 2, frac_end)
                amount == 10 * StrInt(SubSeq(duration_str, i, whole_end))
                          + (IF frac = <<>> THEN 0 ELSE StrInt(<<frac[1]>>))
            IN IF frac_end < Len(duration_str) /\ IsLetters(duration_str[frac_end + 1])
               THEN LET unit == duration_str[frac_end + 1]
                        normalized_unit == IF unit \in DOMAIN UNIT_NORMALIZE
                                           THEN UNIT_NORMALIZE[unit] ELSE unit
                    IN IF normalized_unit \in DOMAIN UNIT_SECONDS
                       THEN Go(frac_end + 2,
                               Append(parts, [amount |-> amount, unit |-> normalized_unit]))
                       ELSE Raised("ValueError")
               ELSE Go(i + 1, parts)
        found == Go(1, <<>>)
    IN IF duration_str = <<>> THEN Raised("ValueError")
       ELSE IF found.kind = "duration" /\ found.parts = <<>> THEN Raised("ValueError")
       ELSE found

\* priority_symbols of from_string, in its order
priority_symbols == <<"!!!", "!!", "!", "?", "...", ",,,">>

\* re.findall(symbol\[([^]]+)\], s)[0].split(","), stripped: the targets of
\* the first bracketed list after the symbol, <<>> when there is no match
first_relation_match(s, symbol) ==
    LET hits == {i \in 1..Len(s) :
                    /\ s[i] = symbol
                    /\ i + 1 <= Len(s) /\ s[i + 1] = "["
                    /\ Find(s, "]", i + 2) >= i + 3}
    IN IF hits = {} THEN <<>>
       ELSE LET i == CHOOSE h \in hits : \A k \in hits : h <= k
            IN Map(Split(SubSeq(s, i + 2, Find(s, "]", i + 2) - 1), ","), Strip)

\* from_string: the item, or the exception raised
from_string(text) ==
    LET line == Strip(text)
        title_start == Find(line, "\"", 1)
    IN IF title_start = 0 THEN Raised("ValueError") ELSE
    LET pre == parse_pre_title_section(Strip(SubSeq(line, 1, title_start - 1)))
    IN IF pre.kind = "error" THEN pre ELSE
    LET RECURSIVE Skip(_)
        \* while title_end != -1 and line[title_end - 1] == '\\'
        Skip(e) == IF e # 0 /\ line[e - 1] = "\\" THEN Skip(Find(line, "\"", e + 1))
                   ELSE e
        title_end == Skip(Find(line, "\"", title_start + 1))
    IN IF title_end = 0 THEN Raised("ValueError") ELSE
    LET title == json_loads(SubSeq(line, title_start, title_end))
    IN IF title.kind = "error" THEN title ELSE
    LET post_title == Strip(SubSeq(line, title_end + 1, Len(line)))
        id_priority_str == pre.id_priority
        suffixes == SelectSeq(priority_symbols,
                        LAMBDA symbol : id_priority_str[Len(id_priority_str)] = symbol)
        id_str == IF suffixes = <<>> THEN id_priority_str
                  ELSE SubSeq(id_priority_str, 1, Len(id_priority_str) - 1)
        priority == IF suffixes = <<>> THEN "" ELSE suffixes[1]
        duration == Duration_parse(pre.duration)
    IN IF duration.kind = "error" THEN duration ELSE
    LET charts_end == IF post_title # <<>> /\ post_title[1] = "{"
                      THEN Find(post_title, "}", 2) ELSE 0
    IN IF charts_end < 3 THEN Raised("ValueError") ELSE
    LET charts_str == SubSeq(post_title, 1, charts_end)
        remainder == Strip(SubSeq(post_title, charts_end + 1, Len(post_title)))
        parts == Split(remainder, ">>>")
        tags_str == Strip(parts[1])
        constraint_parts == Split(IF Len(parts) > 1 THEN Strip(parts[2]) ELSE <<>>, "@@@")
        relations_str == Strip(constraint_parts[1])
        time_constraint_str == IF Len(constraint_parts) > 1
                               THEN <<Strip(constraint_parts[2])>> ELSE <<>>
        charts == Map(NonEmpty(Map(Split(SubSeq(charts_str, 2, Len(charts_str) - 1), ","),
                                   Strip)),
                      StripQuotes)
        tags == NonEmpty(Map(Split(tags_str, ","), Strip))
        rel == FlatMap(RelationType, LAMBDA rel_type :
                   LET targets == first_relation_match(relations_str, RelationValue[rel_type])
                   IN IF targets = <<>> THEN <<>> ELSE << <<rel_type, targets>> >>)
    IN \* cls(...): time_constraint must be a TimeConstraint or None
       IF time_constraint_str # <<>> THEN Raised("TypeError")
       ELSE GianttItem(pre.status, id_str, priority, duration.parts, title.value,
                       charts, tags, rel, <<>>, <<>>, <<>>)

---------------------------------------------------------------------------
(* CodecSpec: an item is constructed, formatted, parsed and formatted again *)

\* the field values the items are constructed from
CodecStatuses == {"U+25CB", "U+25CF"}

CodecPriorities == {"", "!!"}

CodecDurations ==
    {<< [amount |-> 10, unit |-> "d"] >>,
     << [amount |-> 15, unit |-> "h"] >>,
     << [amount |-> 10, unit |-> "hr"], [amount |-> 300, unit |-> "min"] >>}

CodecTitles == {<<"T">>, <<"T", "\"", "x">>, <<"T", "\\">>}

CodecCharts == {<<>>, << <<"c">> >>, << <<"c">>, <<"d">> >>}

CodecTags == {<<>>, << <<"x">>, <<"y">> >>}

\* relation maps as from_string, insert_between and the doctor's fixes
\* leave them: non-empty lists, keys in any order
CodecRelations ==
    {<<>>,
     << <<"REQUIRES", << <<"b">> >> >> >>,
     << <<"REQUIRES", << <<"b">>, <<"c">> >> >>, <<"BLOCKS", << <<"d">> >> >> >>,
     << <<"BLOCKS", << <<"d">> >> >>, <<"REQUIRES", << <<"b">> >> >> >>}

\* None, or a TimeConstraint
CodecTimeConstraints ==
    {<<>>, << [type |-> "deadline", due_date |-> <<"2", "0", "3", "0">>] >>}

\* None, or a comment
CodecComments == {<<>>, << <<"note">> >>}

\* GianttItem(...)
Construct ==
    /\ original = NoItem
    /\ \E status \in CodecStatuses, priority \in CodecPriorities,
          duration \in CodecDurations, title \in CodecTitles,
          charts \in CodecCharts, tags \in CodecTags, rel \in CodecRelations,
          time_constraint \in CodecTimeConstraints,
          user_comment \in CodecComments, auto_comment \in CodecComments :
          original' = GianttItem(status, <<"a">>, priority, duration, title, charts,
                                 tags, rel, time_constraint, user_comment, auto_comment)
    /\ lastOp' = "construct"
    /\ UNCHANGED <<graphVars, sortVars, doctorVars, logVars, graphOpVars, cliVars,
                   formatted, parsed, reformatted, entryVars, copyVars>>

\* line = item.to_string()
FormatItem ==
    /\ original # NoItem
    /\ formatted = <<>>
    /\ formatted' = to_string(original)
    /\ lastOp' = "to_string"
    /\ UNCHANGED <<graphVars, sortVars, doctorVars, logVars, graphOpVars, cliVars,
                   original, parsed, reformatted, entryVars, copyVars>>

\* GianttItem.from_string(line)
ParseLine ==
    /\ formatted # <<>>
    /\ parsed = NoItem
    /\ parsed' = from_string(formatted)
    /\ lastOp' = "from_string"
    /\ UNCHANGED <<graphVars, sortVars, doctorVars, logVars, graphOpVars, cliVars,
                   original, formatted, reformatted, entryVars, copyVars>>

\* GianttItem.from_string(line).to_string()
FormatParsed ==
    /\ parsed.kind = "item"
    /\ reformatted = <<>>
    /\ reformatted' = to_string(parsed)
    /\ lastOp' = "to_string_parsed"
    /\ UNCHANGED <<graphVars, sortVars, doctorVars, logVars, graphOpVars, cliVars,
                   original, formatted, parsed, entryVars, copyVars>>

CodecNext == Construct \/ FormatItem \/ ParseLine \/ FormatParsed

CodecSpec == Init /\ [][CodecNext]_vars

---------------------------------------------------------------------------
(* Properties of the item codec (CodecSpec) *)

\* C12: for every valid item, from_string(to_string(item)) yields an item
\* equal to the original in status, id, priority, duration total seconds,
\* title, ordered charts (an empty chart list included), ordered tags,
\* relation map and time constraint, also for items that carry a time
\* constraint or a user or auto comment.
C12_ParseFormatRoundTrip ==
    parsed # NoItem =>
        /\ parsed.kind = "item"
        /\ parsed.status = original.status
        /\ parsed.id = original.id
        /\ parsed.priority = original.priority
        /\ total_seconds(parsed.duration) = total_seconds(original.duration)
        /\ parsed.title = original.title
        /\ parsed.charts = original.charts
        /\ parsed.tags = original.tags
        /\ parsed.relations = original.relations
        /\ parsed.time_constraint = original.time_constraint

\* C13: for every line L produced by to_string(item), from_string(L) is an
\* item and its to_string is L exactly, whatever the order in which the
\* item's relation map lists its kinds.
C13_FormatParseReproducesLine ==
    /\ parsed # NoItem => parsed.kind = "item"
    /\ reformatted # <<>> => reformatted = formatted

---------------------------------------------------------------------------
(* GianttGraph.find_by_substring, and FindSpec: items with titles are
   added to a graph, then looked up *)

\* str.lower() of a str over the letters the titles and queries are made of
lower(s) ==
    Map(s, LAMBDA c : IF c = "A" THEN "a" ELSE IF c = "B" THEN "b" ELSE c)

\* sub in s
InStr(sub, s) ==
    \E i \in 1..(Len(s) - Len(sub) + 1) : SubSeq(s, i, i + Len(sub) - 1) = sub

\* the str of an id (the ids of the graphs are single atoms)
IdStr(id) == <<id>>

\* find_by_substring: the id of the item returned, or the ValueError raised
find_by_substring(o, ttl, substring) ==
    LET matches == SelectSeq(o, LAMBDA id :
                       InStr(lower(substring), lower(ttl[id])) \/ substring = IdStr(id))
    IN IF matches = <<>>
       THEN [kind |-> "error", exception |-> "ValueError", message |-> "No items"]
       ELSE IF Len(matches) > 1
       THEN [kind |-> "error", exception |-> "ValueError",
             message |-> "Multiple matches"]
       ELSE [kind |-> "item", id |-> matches[1]]

\* the ids, titles and queries of FindSpec
FindItemIds == {"a", "b", "c"}

FindTitles == {<<"x">>, <<"A", "b">>, <<"b", "a", "x">>}

FindQueries == {<<"a">>, <<"B">>, <<"a", "b">>, <<"c">>, <<"z">>}

\* graph.add_item(item) for an item with a title
FindAddItem ==
    /\ lastOp \in {"init", "add_item"}
    /\ \E id \in FindItemIds \ ItemIds(order), title \in FindTitles :
          /\ order' = add_item_order(order, id)
          /\ relations' = add_item_relations(relations, id, NoRelations)
          /\ titles' = add_item_relations(titles, id, title)
    /\ lastOp' = "add_item"
    /\ UNCHANGED <<sortVars, doctorVars, logVars, codecVars, args, result, cliVars,
                   entryVars, copyVars>>

\* graph.find_by_substring(substring)
FindBySubstring ==
    /\ \E substring \in FindQueries :
          /\ args' = [op |-> "find_by_substring", substring |-> substring]
          /\ result' = find_by_substring(order, titles, substring)
    /\ lastOp' = "find_by_substring"
    /\ UNCHANGED <<graphVars, sortVars, doctorVars, logVars, codecVars, titles, cliVars,
                   entryVars, copyVars>>

FindNext == FindAddItem \/ FindBySubstring

FindSpec == Init /\ [][FindNext]_vars

\* C14: when some item's id equals the query, find_by_substring returns
\* that item even if titles of other items contain the query (case
\* ignored); the multiple-matches error is raised only when no id equals
\* the query and more than one title contains it.
C14_ExactIdWins ==
    lastOp = "find_by_substring" =>
        /\ \A id \in ItemIds(order) :
              args.substring = IdStr(id) => result = [kind |-> "item", id |-> id]
        /\ (result.kind = "error" /\ result.message = "Multiple matches") =>
              /\ \A id \in ItemIds(order) : args.substring # IdStr(id)
              /\ Cardinality({id \in ItemIds(order) :
                     InStr(lower(args.substring), lower(titles[id]))}) > 1

---------------------------------------------------------------------------
(* Properties of the doctor's issue list and fix history (DoctorSpec) *)

\* C19: over any sequence of quick_check, full_diagnosis and fix_issues
\* calls on one doctor, each fix_issues call returns a list F such that no
\* issue of F is in self.issues afterwards and self.fixed_issues afterwards
\* is the previous list followed by F; quick_check and full_diagnosis leave
\* self.fixed_issues as it is.
C19_FixedIssuesLeaveAndHistoryGrows ==
    [][/\ lastOp' \in {"fix_issues", "fix_issues_again"} =>
             /\ fixed_issues' = fixed_issues \o returned'
             /\ \A n \in 1..Len(returned') : ~Contains(issues', returned'[n])
       /\ lastOp' \in {"quick_check", "full_diagnosis"} =>
             fixed_issues' = fixed_issues]_vars

\* a second fix_issues call on the same diagnosis fixed an issue and added
\* it to a history that already held one
C19_Witness ==
    /\ lastOp = "fix_issues_again"
    /\ Len(returned) > 0
    /\ Len(fixed_issues) > Len(returned)
    /\ SubSeq(fixed_issues, Len(fixed_issues) - Len(returned) + 1, Len(fixed_issues))
          = returned

\* number of (item, relation kind, target occurrence) triples of the graph
\* whose target is no key of the graph
DanglingCount(o, rel) ==
    LET RECURSIVE SumKinds(_, _)
        SumKinds(x, k) ==
            IF k > Len(rel[x]) THEN 0
            ELSE Cardinality({n \in 1..Len(rel[x][k][2]) :
                                 rel[x][k][2][n] \notin ItemIds(o)})
                 + SumKinds(x, k + 1)
        RECURSIVE SumItems(_)
        SumItems(i) == IF i > Len(o) THEN 0
                       ELSE SumKinds(o[i], 1) + SumItems(i + 1)
    IN SumItems(1)

\* C20: quick_check returns exactly the number of (item, relation kind,
\* target occurrence) triples whose target is absent from the graph;
\* afterwards self.issues holds that many issues, all DANGLING_REFERENCE
\* (one-directional relation pairs are not counted), and the graph is as it
\* was.
C20_QuickCheckCountsDangling ==
    [][lastOp' = "quick_check" =>
          /\ returned' = DanglingCount(order, relations)
          /\ Len(issues') = returned'
          /\ \A n \in 1..Len(issues') : issues'[n].type = "DANGLING_REFERENCE"
          /\ order' = order
          /\ relations' = relations]_vars

\* quick_check returned 1 on a graph with one absent target and a pair of
\* present items related in one direction only
C20_Witness ==
    /\ lastOp = "quick_check"
    /\ returned = 1
    /\ DanglingCount(order, relations) = 1
    /\ \E c \in check_chains(order, relations) : c # <<>>

---------------------------------------------------------------------------
(* GianttGraph.insert_between *)

insert_between_checking_one_anchor(o, rel, new_id, new_rel, before_id, after_id) ==
    IF before_id \notin ItemIds(o)
    THEN [raised |-> TRUE, order |-> o, relations |-> rel, new_item |-> new_rel]
    ELSE [raised |-> FALSE, order |-> add_item_order(o, new_id),
          relations |-> add_item_relations(rel, new_id,
                            DictSet(DictSet(new_rel, "REQUIRES", <<before_id>>),
                                    "BLOCKS", <<after_id>>)),
          new_item |-> DictSet(DictSet(new_rel, "REQUIRES", <<before_id>>),
                               "BLOCKS", <<after_id>>)]

\* insert_between(new_item, before_id, after_id) for a new_item object that
\* is not in the graph: whether it raised ValueError, the graph after, and
\* new_item.relations after
insert_between(o, rel, new_id, new_rel, before_id, after_id) ==
    IF before_id \notin ItemIds(o) \/ after_id \notin ItemIds(o)
    THEN [raised |-> TRUE, order |-> o, relations |-> rel, new_item |-> new_rel]
    ELSE
    LET wired == DictSet(DictSet(new_rel, "REQUIRES", <<before_id>>),
                         "BLOCKS", <<after_id>>)
        before_item == rel[before_id]
    IN IF DictHas(before_item, "BLOCKS") /\ ~Contains(DictAt(before_item, "BLOCKS"), after_id)
       \* list.remove(x): x not in list
       THEN [raised |-> TRUE, order |-> o, relations |-> rel, new_item |-> wired]
       ELSE
       LET rel1 == IF DictHas(before_item, "BLOCKS")
                   THEN WithRelations(rel, before_id,
                            DictSet(before_item, "BLOCKS",
                                Append(list_remove(DictAt(before_item, "BLOCKS"), after_id),
                                       new_id)))
                   ELSE rel
           after_item == rel1[after_id]
       IN IF DictHas(after_item, "REQUIRES")
             /\ ~Contains(DictAt(after_item, "REQUIRES"), before_id)
          THEN [raised |-> TRUE, order |-> o, relations |-> rel1, new_item |-> wired]
          ELSE
          LET rel2 == IF DictHas(after_item, "REQUIRES")
                      THEN WithRelations(rel1, after_id,
                               DictSet(after_item, "REQUIRES",
                                   Append(list_remove(DictAt(after_item, "REQUIRES"),
                                                      before_id),
                                          new_id)))
                      ELSE rel1
          IN [raised |-> FALSE, order |-> add_item_order(o, new_id),
              relations |-> add_item_relations(rel2, new_id, wired),
              new_item |-> wired]

---------------------------------------------------------------------------
(* GraphSpec: a graph is loaded from the two files, then one command or
   graph operation works on it *)

\* Total number of relation entries the loaded graph holds.
MaxGraphEntries == 2

\* ids of the loaded items, the relation kinds they use, and the ids an
\* inserted item can have (one fresh, one taken)
GraphItemIds == {"a", "b"}

GraphKinds == {"REQUIRES", "BLOCKS"}

NewItemIds == {"n", "a"}

\* relations of the item handed to insert_between
NewItemRelations == {NoRelations, << <<"REQUIRES", <<"b">>>> >>}

\* the line of an item in a file: to_string of the item with these relations
item_line(id, itemRel) ==
    to_string(GianttItem("U+25CB", IdStr(id), "", << [amount |-> 10, unit |-> "d"] >>,
                         IdStr(id), <<>>, <<>>,
                         Map(itemRel, LAMBDA pair : <<pair[1], Map(pair[2], IdStr)>>),
                         <<>>, <<>>, <<>>))

\* load_graph: one more line of a file becomes an item of the graph; the
\* items file is read before the occluded items file
GraphAddItem ==
    /\ lastOp \in {"init", "add_item"}
    /\ \E id \in GraphItemIds \ ItemIds(order), occ \in BOOLEAN,
          itemRel \in ParsedRelationsOf(GraphKinds, MaxGraphEntries - RelEntries(relations)) :
          /\ ~occ => \A i \in ItemIds(order) : ~occlude[i]
          /\ order' = add_item_order(order, id)
          /\ relations' = add_item_relations(relations, id, itemRel)
          /\ occlude' = add_item_relations(occlude, id, occ)
          /\ include_file' = IF occ THEN include_file
                             ELSE Append(include_file, item_line(id, itemRel))
          /\ occlude_file' = IF occ THEN Append(occlude_file, item_line(id, itemRel))
                             ELSE occlude_file
    /\ lastOp' = "add_item"
    /\ UNCHANGED <<sortVars, doctorVars, logVars, codecVars, graphOpVars,
                   saveVars, atStart, entryVars, copyVars>>

\* the graph and the files as a command finds them
Snapshot == [order |-> order, relations |-> relations,
             include_file |-> include_file, occlude_file |-> occlude_file]

\* graph.insert_between(new_item, before_id, after_id)
InsertBetween ==
    /\ lastOp = "add_item"
    /\ \E new_id \in NewItemIds, new_rel \in NewItemRelations,
          before_id \in Ids, after_id \in Ids :
          LET r == insert_between(order, relations, new_id, new_rel, before_id, after_id)
          IN /\ order' = r.order
             /\ relations' = r.relations
             /\ occlude' = IF r.raised THEN occlude
                           ELSE add_item_relations(occlude, new_id, FALSE)
             /\ args' = [op |-> "insert_between", new_id |-> new_id, new_rel |-> new_rel,
                         before_id |-> before_id, after_id |-> after_id]
             /\ result' = [kind |-> IF r.raised THEN "error" ELSE "ok",
                           new_item |-> r.new_item]
    /\ atStart' = Snapshot
    /\ lastOp' = "insert_between"
    /\ UNCHANGED <<sortVars, doctorVars, logVars, codecVars, titles, fileVars, saveVars,
                   entryVars, copyVars>>

\* C16: whenever both anchors exist, after insert_between(new_item,
\* before_id, after_id) the graph contains new_item with REQUIRES =
\* [before_id] and BLOCKS = [after_id], before_id's BLOCKS list contains
\* new_item's id and no longer after_id, and after_id's REQUIRES list
\* contains new_item's id and no longer before_id.
C16_InsertBetweenRewires ==
    (/\ lastOp = "insert_between"
     /\ args.before_id \in ItemIds(atStart.order)
     /\ args.after_id \in ItemIds(atStart.order)) =>
        /\ result.kind = "ok"
        /\ args.new_id \in ItemIds(order)
        /\ RelGet(relations, args.new_id, "REQUIRES") = <<args.before_id>>
        /\ RelGet(relations, args.new_id, "BLOCKS") = <<args.after_id>>
        /\ Contains(RelGet(relations, args.before_id, "BLOCKS"), args.new_id)
        /\ ~Contains(RelGet(relations, args.before_id, "BLOCKS"), args.after_id)
        /\ Contains(RelGet(relations, args.after_id, "REQUIRES"), args.new_id)
        /\ ~Contains(RelGet(relations, args.after_id, "REQUIRES"), args.before_id)

\* C17: if before_id or after_id is no key of the graph, insert_between
\* raises, new_item is not inserted, new_item's relations are as they were
\* and no existing item is modified.
C17_AbsentAnchorChangesNothing ==
    (/\ lastOp = "insert_between"
     /\ \/ args.before_id \notin ItemIds(atStart.order)
        \/ args.after_id \notin ItemIds(atStart.order)) =>
        /\ result.kind = "error"
        /\ order = atStart.order
        /\ relations = atStart.relations
        /\ result.new_item = args.new_rel

\* insert_between was called with a present before_id that lists the absent
\* after_id in BLOCKS, for a new item with a fresh id
C17_Witness ==
    /\ lastOp = "insert_between"
    /\ args.before_id \in ItemIds(atStart.order)
    /\ args.after_id \notin ItemIds(atStart.order)
    /\ Contains(RelGet(atStart.relations, args.before_id, "BLOCKS"), args.after_id)
    /\ args.new_id \notin ItemIds(atStart.order)
    /\ result.kind = "error"

---------------------------------------------------------------------------
(* The remove and modify commands, and save_graph_files *)

remove_item_keeping_every_list(o, rel, item_id, keep_relations) ==
    [order |-> SelectSeq(o, LAMBDA id : id # item_id),
     relations |-> [id \in ItemIds(o) \ {item_id} |-> rel[id]]]

\* remove: del graph.items[item_id], then, unless keep_relations, every
\* relation list of every other item without item_id
remove_item(o, rel, item_id, keep_relations) ==
    [order |-> SelectSeq(o, LAMBDA id : id # item_id),
     relations |->
        [id \in ItemIds(o) \ {item_id} |->
            IF keep_relations THEN rel[id]
            ELSE Map(rel[id], LAMBDA pair :
                     <<pair[1], SelectSeq(pair[2], LAMBDA t : t # item_id)>>)]]

\* giantt remove --force item_id [--keep-relations]
Remove ==
    /\ lastOp = "add_item"
    /\ pc = "idle"
    /\ \E item_id \in Ids, keep_relations \in BOOLEAN :
          /\ args' = [op |-> "remove", item_id |-> item_id,
                      keep_relations |-> keep_relations]
          /\ IF item_id \notin ItemIds(order)
             THEN /\ result' = [kind |-> "error", message |-> "not found"]
                  /\ UNCHANGED <<graphVars, occlude, pc>>
             ELSE LET r == remove_item(order, relations, item_id, keep_relations)
                  IN /\ order' = r.order
                     /\ relations' = r.relations
                     /\ occlude' = [id \in ItemIds(r.order) |-> occlude[id]]
                     /\ result' = [kind |-> "ok"]
                     /\ pc' = "save"
    /\ atStart' = Snapshot
    /\ lastOp' = "remove"
    /\ UNCHANGED <<sortVars, doctorVars, logVars, codecVars, titles, fileVars,
                   temp_include, temp_occlude, save_items, entryVars, copyVars>>

\* giantt modify --add item_id property value, for a relation property and
\* one target: the cycle check guards a change of REQUIRES
Modify ==
    /\ lastOp = "add_item"
    /\ pc = "idle"
    /\ \E item_id \in ItemIds(order), relation_type \in GraphKinds, target \in Ids :
          LET item == relations[item_id]
              changed == WithRelations(relations, item_id,
                             DictSet(item, relation_type,
                                 Append(DictGet(item, relation_type, <<>>), target)))
              cyclic == relation_type = "REQUIRES"
                        /\ \E r \in topological_sort(order, changed) : r.kind = "cycle"
          IN /\ args' = [op |-> "modify", item_id |-> item_id,
                         relation_type |-> relation_type, target |-> target]
             /\ relations' = changed
             /\ result' = [kind |-> IF cyclic THEN "error" ELSE "ok"]
             /\ pc' = IF cyclic THEN "idle" ELSE "save"
    /\ atStart' = Snapshot
    /\ lastOp' = "modify"
    /\ UNCHANGED <<order, sortVars, doctorVars, logVars, codecVars, titles, occlude,
                   fileVars, temp_include, temp_occlude, save_items,
                   entryVars, copyVars>>

\* the first line of each file as save_graph_files writes it
ITEMS_FILE_BANNER == <<"#", "Giantt Items">>

ITEMS_ARCHIVE_FILE_BANNER == <<"#", "Giantt Occluded Items">>

\* the lines of the items of sorted ids whose occlude flag is occ
file_lines(ids, rel, occ_of, occ) ==
    Map(SelectSeq(ids, LAMBDA id : occ_of[id] = occ), LAMBDA id : item_line(id, rel[id]))

SaveWithoutSort ==
    /\ pc = "save"
    /\ pc' = "write_include"
    /\ save_items' = order
    /\ lastOp' = "save_sort"
    /\ UNCHANGED <<graphVars, sortVars, doctorVars, logVars, codecVars, graphOpVars,
                   occlude, fileVars, temp_include, temp_occlude, atStart,
                   entryVars, copyVars>>

\* save_graph_files: sorted_items = graph.topological_sort(); on
\* CycleDetectedException the handler runs before any file was opened
SaveSort ==
    /\ pc = "save"
    /\ \E r \in topological_sort(order, relations) :
          IF r.kind = "cycle"
          THEN /\ pc' = "raised"
               /\ UNCHANGED save_items
          ELSE /\ pc' = "write_include"
               /\ save_items' = r.ids
    /\ lastOp' = "save_sort"
    /\ UNCHANGED <<graphVars, sortVars, doctorVars, logVars, codecVars, graphOpVars,
                   occlude, fileVars, temp_include, temp_occlude, atStart,
                   entryVars, copyVars>>

\* save_graph_files: write the items file's .temp file
WriteTempInclude ==
    /\ pc = "write_include"
    /\ temp_include' = <<ITEMS_FILE_BANNER>>
                       \o file_lines(save_items, relations, occlude, FALSE)
    /\ pc' = "write_occlude"
    /\ lastOp' = "write_temp_include"
    /\ UNCHANGED <<graphVars, sortVars, doctorVars, logVars, codecVars, graphOpVars,
                   occlude, fileVars, temp_occlude, save_items, atStart,
                   entryVars, copyVars>>

\* save_graph_files: write the occluded items file's .temp file
WriteTempOcclude ==
    /\ pc = "write_occlude"
    /\ temp_occlude' = <<ITEMS_ARCHIVE_FILE_BANNER>>
                       \o file_lines(save_items, relations, occlude, TRUE)
    /\ pc' = "replace_include"
    /\ lastOp' = "write_temp_occlude"
    /\ UNCHANGED <<graphVars, sortVars, doctorVars, logVars, codecVars, graphOpVars,
                   occlude, fileVars, temp_include, save_items, atStart,
                   entryVars, copyVars>>

\* save_graph_files: os.replace(temp_include, filepath)
ReplaceInclude ==
    /\ pc = "replace_include"
    /\ include_file' = temp_include
    /\ temp_include' = <<>>
    /\ pc' = "replace_occlude"
    /\ lastOp' = "replace_include"
    /\ UNCHANGED <<graphVars, sortVars, doctorVars, logVars, codecVars, graphOpVars,
                   occlude, occlude_file, temp_occlude, save_items, atStart,
                   entryVars, copyVars>>

\* save_graph_files: os.replace(temp_occlude, occlude_filepath)
ReplaceOcclude ==
    /\ pc = "replace_occlude"
    /\ occlude_file' = temp_occlude
    /\ temp_occlude' = <<>>
    /\ pc' = "saved"
    /\ lastOp' = "replace_occlude"
    /\ UNCHANGED <<graphVars, sortVars, doctorVars, logVars, codecVars, graphOpVars,
                   occlude, include_file, temp_include, save_items, atStart,
                   entryVars, copyVars>>

GraphNext ==
    \/ GraphAddItem
    \/ InsertBetween
    \/ Remove
    \/ Modify
    \/ SaveSort
    \/ WriteTempInclude
    \/ WriteTempOcclude
    \/ ReplaceInclude
    \/ ReplaceOcclude

GraphSpec == Init /\ [][GraphNext]_vars

---------------------------------------------------------------------------
(* Properties of remove, insert_between and save_graph_files *)

\* list without every occurrence of id, the other targets in the order they had
Without(list, id) == SelectSeq(list, LAMBDA t : t # id)

\* C15: after remove of a present id without --keep-relations the id is no
\* key of the graph, no relation list of a remaining item contains it and
\* every list holds its other targets in the order they had; with
\* --keep-relations the id is no key and every remaining item's relation
\* lists are as they were.
C15_RemoveStripsOrKeeps ==
    (args.op = "remove" /\ result.kind = "ok") =>
        /\ args.item_id \notin ItemIds(order)
        /\ ItemIds(order) = ItemIds(atStart.order) \ {args.item_id}
        /\ \A id \in ItemIds(order) :
              IF args.keep_relations
              THEN relations[id] = atStart.relations[id]
              ELSE /\ Len(relations[id]) = Len(atStart.relations[id])
                   /\ \A k \in 1..Len(relations[id]) :
                         /\ relations[id][k][1] = atStart.relations[id][k][1]
                         /\ ~Contains(relations[id][k][2], args.item_id)
                         /\ relations[id][k][2] =
                               Without(atStart.relations[id][k][2], args.item_id)

\* an item was removed without --keep-relations while another item listed it
\* between two occurrences of other targets, and one was removed with
\* --keep-relations while another item listed it
C15_Witness ==
    /\ args.op = "remove"
    /\ result.kind = "ok"
    /\ ~args.keep_relations
    /\ \E id \in ItemIds(order) : \E k \in 1..Len(atStart.relations[id]) :
          LET list == atStart.relations[id][k][2]
          IN /\ Len(list) = 2
             /\ list[1] = args.item_id
             /\ list[2] # args.item_id
             /\ relations[id][k][2] = <<list[2]>>

C15_KeepWitness ==
    /\ args.op = "remove"
    /\ result.kind = "ok"
    /\ args.keep_relations
    /\ \E id \in ItemIds(order) : \E k \in 1..Len(atStart.relations[id]) :
          Contains(relations[id][k][2], args.item_id)

\* C18: when a save is requested for a graph whose REQUIRES relation has a
\* cycle, the save fails before anything is written: in every state of the
\* command the items file and the occluded items file hold what they held
\* when the command started, so neither is replaced without the other; a
\* modify that its own cycle check rejects never reaches the save.
C18_CycleSaveLeavesFiles ==
    /\ (pc # "idle" /\ HasCycle(order, relations)) =>
          /\ pc \in {"save", "raised"}
          /\ include_file = atStart.include_file
          /\ occlude_file = atStart.occlude_file
    /\ (args.op = "modify" /\ result.kind = "error") =>
          /\ pc = "idle"
          /\ include_file = atStart.include_file
          /\ occlude_file = atStart.occlude_file
    /\ pc = "raised" => HasCycle(order, relations)

\* the save of a command failed on a cycle between an item of the items
\* file and an item of the occluded items file
C18_Witness ==
    /\ pc = "raised"
    /\ HasCycle(order, relations)
    /\ Len(include_file) > 0
    /\ Len(occlude_file) > 0
    /\ include_file = atStart.include_file
    /\ occlude_file = atStart.occlude_file

---------------------------------------------------------------------------
(* Duration.__add__, and DurationSpec: two durations are parsed, then added *)

\* the names an attribute lookup on a Duration finds: the field and the
\* methods of class Duration (and of object)
DurationAttributes ==
    {"parts", "parse", "total_seconds", "__str__", "__add__", "__eq__",
     "__lt__", "__gt__", "__le__", "__ge__", "__hash__"}

\* the units in the order of sorted(..., key=seconds, reverse=True): a stable
\* sort, so "h" stays before "hr"
UnitsDescending == <<"y", "mo", "w", "d", "h", "hr", "min", "s">>

\* Duration.__add__: the Duration returned, or the exception raised.  The
\* total is in tenths of a second; the amount of the returned part is the
\* quotient total / seconds, kept as dividend and divisor.
Duration_add(self, that) ==
    LET total == total_seconds(self) + total_seconds(that)
    IN IF "_UNIT_SECONDS" \notin DurationAttributes
       THEN Raised("AttributeError")
       ELSE LET fits == {i \in 1..Len(UnitsDescending) :
                            total >= 10 * UNIT_SECONDS[UnitsDescending[i]]}
            IN IF fits = {}
               THEN [kind |-> "duration",
                     parts |-> << [dividend |-> total, divisor |-> 10, unit |-> "s"] >>]
               ELSE LET i == CHOOSE k \in fits : \A j \in fits : k <= j
                        unit == UnitsDescending[i]
                    IN [kind |-> "duration",
                        parts |-> << [dividend |-> total,
                                      divisor |-> 10 * UNIT_SECONDS[unit],
                                      unit |-> unit] >>]

\* the strs handed to Duration.parse: whole-second totals, one and two parts
DurationTexts ==
    {<<"0", "s">>, <<"2", "s">>, <<"6", "2", "s">>, <<"1", "min">>,
     <<"1", "2", "h">>, <<"1", ".", "5", "h">>, <<"1", "d">>,
     <<"1", "h", "3", "0", "min">>, <<"1", "w">>, <<"1", "y">>}

\* a = Duration.parse(...); b = Duration.parse(...)
DurationParse ==
    /\ lastOp = "init"
    /\ \E s \in DurationTexts, t \in DurationTexts :
          args' = [op |-> "add", a |-> Duration_parse(s).parts,
                   b |-> Duration_parse(t).parts]
    /\ result' = NoResult
    /\ lastOp' = "parse"
    /\ UNCHANGED <<graphVars, sortVars, doctorVars, logVars, codecVars, titles, cliVars,
                   entryVars, copyVars>>

\* a + b
DurationAdd ==
    /\ lastOp = "parse"
    /\ result' = Duration_add(args.a, args.b)
    /\ lastOp' = "add"
    /\ UNCHANGED <<graphVars, sortVars, doctorVars, logVars, codecVars, titles, args,
                   cliVars, entryVars, copyVars>>

DurationNext == DurationParse \/ DurationAdd

DurationSpec == Init /\ [][DurationNext]_vars

\* C22: for durations a and b with whole-second totals, a + b returns a
\* Duration with exactly one part, whose total seconds are a.total_seconds()
\* + b.total_seconds() and whose unit is the largest unit whose seconds are
\* at most that total.
C22_AddGivesOnePartLargestUnit ==
    lastOp = "add" =>
        LET total == total_seconds(args.a) + total_seconds(args.b)
        IN /\ result.kind = "duration"
           /\ Len(result.parts) = 1
           /\ result.parts[1].dividend * 10 * UNIT_SECONDS[result.parts[1].unit]
                 = total * result.parts[1].divisor
           /\ \A unit \in DOMAIN UNIT_SECONDS :
                 10 * UNIT_SECONDS[unit] <= total =>
                     UNIT_SECONDS[unit] <= UNIT_SECONDS[result.parts[1].unit]
           /\ total >= 10 => 10 * UNIT_SECONDS[result.parts[1].unit] <= total

---------------------------------------------------------------------------
(* LogCollection.get_by_date_range, and QuerySpec: a store is filled, then
   queried *)

\* datetime.now(timezone.utc) at the time of a query: later than every entry
Now == MaxTime + 1

\* get_by_date_range(start, end), end = <<>> for None
get_by_date_range(es, start, end) ==
    LET until == IF end = <<>> THEN Now ELSE end[1]
    IN SelectSeq(es, LAMBDA entry : start <= entry.timestamp /\ entry.timestamp <= until)

\* logs.get_by_date_range(start, end) or logs.get_by_date_range(start)
GetByDateRange ==
    /\ \E start \in 1..MaxTime, end \in {<<>>} \cup {<<t>> : t \in 1..MaxTime} :
          /\ args' = [op |-> "get_by_date_range", start |-> start, end |-> end,
                      entries |-> entries]
          /\ result' = [kind |-> "entries",
                        entries |-> get_by_date_range(entries, start, end)]
    /\ lastOp' = "get_by_date_range"
    /\ UNCHANGED <<graphVars, sortVars, doctorVars, logVars, codecVars, titles, cliVars,
                   entryVars, copyVars>>

QueryNext == AddEntry \/ AddEntries \/ GetByDateRange

QuerySpec == Init /\ [][QueryNext]_vars

\* C23: the timestamp-range query over [start, end) returns exactly the
\* stored entries with start <= timestamp < end, in stored order (an entry
\* at start is included, an entry at end is not), and leaves the store as
\* it was.
C23_RangeIsClosedOpen ==
    (lastOp = "get_by_date_range" /\ args.end # <<>>) =>
        /\ result.entries =
              SelectSeq(entries, LAMBDA entry :
                  args.start <= entry.timestamp /\ entry.timestamp < args.end[1])
        /\ entries = args.entries

---------------------------------------------------------------------------
(* LogEntry, and EntrySpec: an entry is created, then its tags are edited
   and it is written to a record and read back *)

\* the strs used as session tags and as tags
LogTags == {"s1", "s2", "x", "y"}

\* LogEntry.create(session_tag, message, additional_tags); additional_tags
\* as the set of its elements, {} for None or []
LogEntry_create(session_tag, additional_tags) ==
    [kind |-> "entry", session |-> session_tag,
     tags |-> {session_tag} \cup additional_tags]

\* add_tag
add_tag(self, tag) == [self EXCEPT !.tags = @ \cup {tag}]

\* remove_tag: set.discard
remove_tag(self, tag) == [self EXCEPT !.tags = @ \ {tag}]

\* to_dict: the record's 's' and 'tags' (the sorted list, as its set)
to_dict(self) == [s |-> self.session, tags |-> self.tags]

\* from_dict
from_dict(data) == [kind |-> "entry", session |-> data.s, tags |-> data.tags]

\* entry = LogEntry.create(...)
EntryCreate ==
    /\ log_entry = NoEntry
    /\ \E session_tag \in LogTags, additional_tags \in SUBSET LogTags :
          log_entry' = LogEntry_create(session_tag, additional_tags)
    /\ lastOp' = "create"
    /\ UNCHANGED <<graphVars, sortVars, doctorVars, logVars, codecVars, graphOpVars,
                   cliVars, copyVars>>

\* entry.add_tag(tag)
AddTag ==
    /\ log_entry # NoEntry
    /\ \E tag \in LogTags : log_entry' = add_tag(log_entry, tag)
    /\ lastOp' = "add_tag"
    /\ UNCHANGED <<graphVars, sortVars, doctorVars, logVars, codecVars, graphOpVars,
                   cliVars, copyVars>>

\* entry.remove_tag(tag)
RemoveTag ==
    /\ log_entry # NoEntry
    /\ \E tag \in LogTags : log_entry' = remove_tag(log_entry, tag)
    /\ lastOp' = "remove_tag"
    /\ UNCHANGED <<graphVars, sortVars, doctorVars, logVars, codecVars, graphOpVars,
                   cliVars, copyVars>>

\* entry = LogEntry.from_line(entry.to_line()): saved and loaded again
EntryReload ==
    /\ log_entry # NoEntry
    /\ log_entry' = from_dict(to_dict(log_entry))
    /\ lastOp' = "from_dict"
    /\ UNCHANGED <<graphVars, sortVars, doctorVars, logVars, codecVars, graphOpVars,
                   cliVars, copyVars>>

EntryNext == EntryCreate \/ AddTag \/ RemoveTag \/ EntryReload

EntrySpec == Init /\ [][EntryNext]_vars

\* C24: a LogEntry's tag set contains its session tag in every reachable
\* state: after creation with any additional tags, after loading from a
\* serialized record, and after any add_tag and remove_tag calls (of the
\* session tag itself included).
C24_TagsHoldSession ==
    log_entry # NoEntry => log_entry.session \in log_entry.tags

---------------------------------------------------------------------------
(* TerminationSpec: topological_sort() statement by statement *)

\* graph.add_item(item) while the graph is built
LoadItem ==
    /\ lastOp \in {"init", "add_item"}
    /\ SortAddItem

\* topological_sort: sorted_items = self._safe_topological_sort(), which
\* returns or raises CycleDetectedException
SafeTopologicalSort ==
    /\ lastOp = "add_item"
    /\ outcome' \in safe_topological_sort(order, relations)
    /\ lastOp' = "safe_topological_sort"
    /\ UNCHANGED <<graphVars, firstOutcome, doctorVars, logVars, codecVars, graphOpVars,
                   cliVars, entryVars, copyVars>>

\* topological_sort: return sorted(sorted_items, key=get_item_sort_key),
\* which calls _get_dependency_depth for every item
SortByKey ==
    /\ lastOp = "safe_topological_sort"
    /\ outcome.kind = "ok"
    /\ outcome' = [kind |-> "ok", ids |-> sorted_by_key(outcome.ids, order, relations)]
    /\ lastOp' = "sorted"
    /\ UNCHANGED <<graphVars, firstOutcome, doctorVars, logVars, codecVars, graphOpVars,
                   cliVars, entryVars, copyVars>>

TerminationNext == LoadItem \/ SafeTopologicalSort \/ SortByKey

\* a call that returned from _safe_topological_sort goes on to its next
\* statement
TerminationSpec == Init /\ [][TerminationNext]_vars /\ WF_vars(SortByKey)

\* C25: topological_sort ends on every graph, cyclic or not and with or
\* without dangling targets, with a result or with CycleDetected:
\* _safe_topological_sort has an outcome for every graph, the dependency
\* depth is computed only for a graph whose REQUIRES relation over present
\* ids has no cycle, where every depth is below the number of items, and a
\* call that reached the sort by key returns.
C25_SortTerminates ==
    /\ [](lastOp = "add_item" => safe_topological_sort(order, relations) # {})
    /\ []((lastOp = "safe_topological_sort" /\ outcome.kind = "ok")
             => ~HasCycle(order, relations))
    /\ [](lastOp = "sorted" =>
             \A id \in ItemIds(order) :
                 get_dependency_depth(id, order, relations) < Len(order))
    /\ (lastOp = "safe_topological_sort"
           ~> (lastOp = "sorted" \/ outcome.kind = "cycle"))

\* a sort returned for two items, one requiring the other, with a dangling
\* target
C25_Witness ==
    /\ lastOp = "sorted"
    /\ Len(order) = 2
    /\ \E id \in ItemIds(order) : get_dependency_depth(id, order, relations) = 1
    /\ WithoutDangling(order, relations) # relations

---------------------------------------------------------------------------
(* Further properties of insert_between (GraphSpec) *)

\* C26: insert_between is all-or-nothing: whenever it raises (an absent
\* anchor, or an anchor whose BLOCKS or REQUIRES list does not hold the
\* other anchor), the graph is as before the call: no relation list of an
\* existing item was modified and new_item was not inserted.
C26_InsertBetweenAllOrNothing ==
    (lastOp = "insert_between" /\ result.kind = "error") =>
        /\ order = atStart.order
        /\ relations = atStart.relations

---------------------------------------------------------------------------
(* Further properties of the doctor (DoctorSpec) *)

\* C27: starting from a graph whose relation dicts use only the eight
\* relation kinds, after any sequence of add_item, full_diagnosis and
\* fix_issues calls every key of every item's relation dict is still one of
\* the eight kinds (so that to_string finds a symbol for it).
C27_RelationKeysStayKinds ==
    \A id \in ItemIds(order) : \A k \in 1..Len(relations[id]) :
        relations[id][k][1] \in Range(RelationType)

\* C28: fix_issues never introduces a dependency cycle: if REQUIRES over
\* the present ids has no cycle when full_diagnosis runs, it has none after
\* the fix_issues call that follows, whatever its filters.
C28_FixKeepsRequiresAcyclic ==
    (FixedAfterFullDiagnosis /\ ~HasCycle(order, diagnosed.rel)) =>
        ~HasCycle(order, relations)

\* B is in A's list of kind fwd exactly when A is in B's list of kind rev
Paired(o, rel, fwd, rev) ==
    \A A \in ItemIds(o), B \in ItemIds(o) :
        Contains(RelGet(rel, A, fwd), B) <=> Contains(RelGet(rel, B, rev), A)

\* C29: full_diagnosis reports nothing on a graph without dangling targets
\* in which A has B in BLOCKS exactly when B has A in REQUIRES, and A has B
\* in SUFFICIENT exactly when B has A in ANYOF.
C29_NoFalsePositives ==
    (/\ lastOp = "full_diagnosis"
     /\ DanglingCount(order, relations) = 0
     /\ Paired(order, relations, "BLOCKS", "REQUIRES")
     /\ Paired(order, relations, "SUFFICIENT", "ANYOF")) =>
        issues = <<>>

---------------------------------------------------------------------------
(* GianttGraph.copy, and CopySpec: a graph is loaded and copied, then the
   graph or the copy is operated on *)

\* Most operations applied to the graph and its copy after the copy.
MaxCopyOps == 2

\* GianttGraph.copy with GianttItem.copy: a new graph of new items, each
\* with relations.copy(), a new dict holding the same list objects
graph_copy(o, rel) ==
    [order |-> o, relations |-> rel,
     shared |-> {p \in ItemIds(o) \X Range(RelationType) : DictHas(rel[p[1]], p[2])}]

\* what a graph's dicts show after lists were changed in place through the
\* other graph: a list object the two have in common reads as in `changed`
seen_through(rel, changed, sh) ==
    [id \in DOMAIN rel |->
        [k \in 1..Len(rel[id]) |->
            IF <<id, rel[id][k][1]>> \in sh
            THEN <<rel[id][k][1], DictAt(changed[id], rel[id][k][1])>>
            ELSE rel[id][k]]]

\* graph.add_item(item) while the file is loaded
CopyAddItem ==
    /\ lastOp \in {"init", "add_item"}
    /\ \E id \in GraphItemIds \ ItemIds(order),
          itemRel \in ParsedRelationsOf(GraphKinds, MaxGraphEntries - RelEntries(relations)) :
          /\ order' = add_item_order(order, id)
          /\ relations' = add_item_relations(relations, id, itemRel)
    /\ lastOp' = "add_item"
    /\ UNCHANGED <<sortVars, doctorVars, logVars, codecVars, graphOpVars, cliVars,
                   entryVars, copyVars>>

\* copied = graph.copy()
Copy ==
    /\ lastOp = "add_item"
    /\ LET c == graph_copy(order, relations)
       IN /\ copy_order' = c.order
          /\ copy_relations' = c.relations
          /\ shared' = c.shared
          /\ copy_ops' = 0
    /\ atStart' = Snapshot
    /\ lastOp' = "copy"
    /\ UNCHANGED <<graphVars, sortVars, doctorVars, logVars, codecVars, graphOpVars,
                   occlude, fileVars, saveVars, entryVars>>

\* the copy was taken
Copied == lastOp \in {"copy", "insert_between", "extend"}

\* copied.insert_between(new_item, before_id, after_id) or
\* graph.insert_between(new_item, before_id, after_id), for a new item
\* with a fresh id and no relations
CopyInsertBetween ==
    /\ Copied
    /\ copy_ops < MaxCopyOps
    /\ copy_ops' = copy_ops + 1
    /\ \E on \in {"copy", "graph"}, new_id \in NewItemIds, before_id \in Ids, after_id \in Ids :
          LET o == IF on = "copy" THEN copy_order ELSE order
              rel == IF on = "copy" THEN copy_relations ELSE relations
              r == insert_between(o, rel, new_id, NoRelations, before_id, after_id)
          IN /\ new_id \notin ItemIds(o)
             /\ IF on = "copy"
                THEN /\ copy_order' = r.order
                     /\ copy_relations' = r.relations
                     /\ relations' = seen_through(relations, r.relations, shared)
                     /\ order' = order
                ELSE /\ order' = r.order
                     /\ relations' = r.relations
                     /\ copy_relations' = seen_through(copy_relations, r.relations, shared)
                     /\ copy_order' = copy_order
             /\ args' = [op |-> "insert_between", on |-> on, new_id |-> new_id,
                         before_id |-> before_id, after_id |-> after_id]
             /\ result' = [kind |-> IF r.raised THEN "error" ELSE "ok"]
    /\ lastOp' = "insert_between"
    /\ UNCHANGED <<sortVars, doctorVars, logVars, codecVars, titles, cliVars, entryVars,
                   shared>>

\* item.relations.setdefault(relation_type, []).extend([target]) on an item
\* of the copy or of the graph
CopyExtend ==
    /\ Copied
    /\ copy_ops < MaxCopyOps
    /\ copy_ops' = copy_ops + 1
    /\ \E on \in {"copy", "graph"}, relation_type \in GraphKinds, target \in Ids :
          LET o == IF on = "copy" THEN copy_order ELSE order
              rel == IF on = "copy" THEN copy_relations ELSE relations
          IN \E item_id \in ItemIds(o) :
             LET changed == WithRelations(rel, item_id,
                                DictSet(rel[item_id], relation_type,
                                    Append(DictGet(rel[item_id], relation_type, <<>>),
                                           target)))
             IN /\ IF on = "copy"
                   THEN /\ copy_relations' = changed
                        /\ relations' = seen_through(relations, changed, shared)
                   ELSE /\ relations' = changed
                        /\ copy_relations' = seen_through(copy_relations, changed, shared)
                /\ args' = [op |-> "extend", on |-> on, item_id |-> item_id,
                            relation_type |-> relation_type, target |-> target]
                /\ result' = [kind |-> "ok"]
    /\ lastOp' = "extend"
    /\ UNCHANGED <<order, copy_order, sortVars, doctorVars, logVars, codecVars, titles,
                   cliVars, entryVars, shared>>

CopyNext == CopyAddItem \/ Copy \/ CopyInsertBetween \/ CopyExtend

CopySpec == Init /\ [][CopyNext]_vars

\* C30: graph.copy() yields an independent graph: an insert_between or an
\* in-place edit of a relation list applied to the copy leaves every item
\* of the graph with the relation lists it had, and one applied to the graph
\* leaves every item of the copy with the relation lists it had.  (No
\* operation of the claim writes charts or tags.)
C30_CopyIsIndependent ==
    [][(lastOp' \in {"insert_between", "extend"} /\ Copied) =>
          /\ args'.on = "copy" => (order' = order /\ relations' = relations)
          /\ args'.on = "graph" =>
                (copy_order' = copy_order /\ copy_relations' = copy_relations)]_vars

============================================================================
